---- MODULE Spec2Model ----
(***************************************************************************)
(* Page-layout and cross-reference engine of the todo-booklet generator.   *)
(*                                                                         *)
(* create_pdf (generator-pdf-todo-boox-double-details_16.py) is modelled   *)
(* page by page: every action is the code between two showPage() calls.    *)
(* The canvas is the recorded effect of the calls the code makes on it:    *)
(* bookmarkPage(name), linkRect(target), doForm(name), showPage(),         *)
(* beginForm/endForm and save().                                           *)
(*                                                                         *)
(* Two ways of running the generator exist in the repository:              *)
(*   mode = "ui"     pdf_generator_ui.py rewrites the generator's source   *)
(*                   (Config values, title page call, detail page loop,    *)
(*                   index page column size) and runs the result;          *)
(*   mode = "script" the generator file is run as shipped, with the        *)
(*                   values of its own Config class.                       *)
(*                                                                         *)
(* Bookmark names are f-strings in the code ("page_{n}",                   *)
(* "detail_{idx}_{k}").  The numbers are printed in decimal and separated  *)
(* by "_", so two names are equal exactly when their prefix and numbers    *)
(* are equal: a name is modelled as the tuple of its prefix and numbers.   *)
(***************************************************************************)
EXTENDS Integers, Sequences, FiniteSets, TLC

VARIABLES mode, config, pc, p, idx, detail_page_num, pages, forms, outcome,
          geom, fn, inp, out, gallery, session

vars == <<mode, config, pc, p, idx, detail_page_num, pages, forms, outcome,
          geom, fn, inp, out, gallery, session>>

(***************************************************************************)
(* geom is the page geometry of Config, in millimetres.  fn, inp and out   *)
(* hold the function under study, its input and its result in the          *)
(* specifications that apply one function of the program to its inputs.    *)
(* gallery is the public gallery: its index, its configuration files, and  *)
(* the calls made on it with what they returned.  session is the           *)
(* Streamlit session: the values of the keyed widgets, what the export     *)
(* button last showed, and the session store of the user config manager.   *)
(* None of them is written by the page actions of create_pdf.              *)
(***************************************************************************)
others == <<geom, fn, inp, out, gallery, session>>

(***************************************************************************)
(* Bounds of the model and limits set by the program.                      *)
(***************************************************************************)
MaxItemsPerCol == 10
MaxPages == 3
MaxDetail == 3

MinItemsPerCol == 10
MinPages == 2

ScriptItemsPerCol == 20
ScriptColumns == 2
ScriptPagesOfTodos == 30
ScriptDetailPages == 2
ScriptIndexItemsPerCol == 8
IndexCols == 2

(***************************************************************************)
(* Bookmark names.                                                         *)
(***************************************************************************)
IndexName == <<"index">>
PageName(n) == <<"page", n>>
DetailName(i, k) == <<"detail", i, k>>

Link(role, target) == [role |-> role, target |-> target]

(***************************************************************************)
(* Config values the UI can write into the generated generator.            *)
(***************************************************************************)
UiConfigs ==
    [ITEMS_PER_COL : MinItemsPerCol..MaxItemsPerCol,
     COLUMNS : {1, 2},
     PAGES_OF_TODOS : MinPages..MaxPages,
     DETAIL_PAGES_PER_TODO : 1..MaxDetail,
     TITLE_PAGE_ENABLED : BOOLEAN]

ScriptConfig ==
    [ITEMS_PER_COL |-> ScriptItemsPerCol,
     COLUMNS |-> ScriptColumns,
     PAGES_OF_TODOS |-> ScriptPagesOfTodos,
     DETAIL_PAGES_PER_TODO |-> ScriptDetailPages,
     TITLE_PAGE_ENABLED |-> FALSE]

ItemsPerPage == config.ITEMS_PER_COL * config.COLUMNS
total_items == config.PAGES_OF_TODOS * config.ITEMS_PER_COL * config.COLUMNS

(***************************************************************************)
(* The UI replaces the two hard-coded detail pages by a loop only when     *)
(* the selected number of detail pages is not 2.                           *)
(***************************************************************************)
UseLoopNever == FALSE
UseLoop == mode = "ui" /\ config.DETAIL_PAGES_PER_TODO # 2

(***************************************************************************)
(* Index page.                                                             *)
(***************************************************************************)
IndexItemsPerCol ==
    IF mode = "ui"
    THEN (config.PAGES_OF_TODOS + IndexCols - 1) \div IndexCols
    ELSE ScriptIndexItemsPerCol

RECURSIVE IndexColumn(_, _)
IndexColumn(col, i) ==
    IF i >= IndexItemsPerCol THEN <<>>
    ELSE LET page_num == col * IndexItemsPerCol + i + 1
         IN IF page_num > config.PAGES_OF_TODOS THEN <<>>
            ELSE <<page_num>> \o IndexColumn(col, i + 1)

RECURSIVE IndexEntries(_)
IndexEntries(col) ==
    IF col >= IndexCols THEN <<>>
    ELSE IndexColumn(col, 0) \o IndexEntries(col + 1)

Page(kind, n, k, bm, links, frm, items, hdr) ==
    [kind |-> kind, n |-> n, k |-> k, bm |-> bm, links |-> links,
     forms |-> frm, items |-> items, hdr |-> hdr]

IndexPageContent ==
    LET e == IndexEntries(0)
    IN Page("index", 0, 0,
            <<IndexName>> \o [j \in 1..Len(e) |-> PageName(e[j])],
            [j \in 1..Len(e) |-> Link("entry", PageName(e[j]))],
            <<>>, <<>>, <<>>)

(***************************************************************************)
(* List pages.                                                             *)
(***************************************************************************)
GlobalIdxNoColumns(lp, col, i) == lp * config.ITEMS_PER_COL + col * config.ITEMS_PER_COL + i + 1
GlobalIdx(lp, col, i) ==
    lp * config.ITEMS_PER_COL * config.COLUMNS + col * config.ITEMS_PER_COL + i + 1

TodoNumNoWrap(global_idx) == global_idx
TodoNum(global_idx) == ((global_idx - 1) % (config.ITEMS_PER_COL * config.COLUMNS)) + 1

ItemLinkTargetZero(global_idx) == DetailName(global_idx, 0)
ItemLinkTarget(global_idx) == DetailName(global_idx, 1)

ListItems(lp) ==
    [j \in 1..(config.COLUMNS * config.ITEMS_PER_COL) |->
        LET col == (j - 1) \div config.ITEMS_PER_COL
            i == (j - 1) % config.ITEMS_PER_COL
            global_idx == GlobalIdx(lp, col, i)
        IN [col |-> col, i |-> i, global_idx |-> global_idx,
            todo_num |-> TodoNum(global_idx)]]

ListPageContentNoBookmark(lp) ==
    LET it == ListItems(lp)
    IN Page("list", lp + 1, 0,
            <<>>,
            <<Link("header", IndexName)>> \o
                [j \in 1..Len(it) |-> Link("item", ItemLinkTarget(it[j].global_idx))],
            <<>>, it, <<lp + 1>>)
ListPageContent(lp) ==
    LET it == ListItems(lp)
    IN Page("list", lp + 1, 0,
            <<PageName(lp + 1)>>,
            <<Link("header", IndexName)>> \o
                [j \in 1..Len(it) |-> Link("item", ItemLinkTarget(it[j].global_idx))],
            <<>>, it, <<lp + 1>>)

(***************************************************************************)
(* Detail pages.                                                           *)
(***************************************************************************)
PageNumNoColumns(i) == ((i - 1) \div config.ITEMS_PER_COL) + 1
PageNum(i) == ((i - 1) \div (config.ITEMS_PER_COL * config.COLUMNS)) + 1
PositionInPage(i) == ((i - 1) % (config.ITEMS_PER_COL * config.COLUMNS)) + 1

DetailFormsTwice == <<"dotPattern", "dotPattern">>
DetailForms == <<"dotPattern">>

SecondPageLinksNoIndex(i) ==
    <<Link("back", PageName(PageNum(i))),
      Link("prev", DetailName(i, 1))>>
SecondPageLinks(i) ==
    <<Link("back", PageName(PageNum(i))),
      Link("index", IndexName),
      Link("prev", DetailName(i, 1))>>

DetailFirstContent(i) ==
    Page("detail", i, 1,
         <<DetailName(i, 1)>>,
         <<Link("back", PageName(PageNum(i))),
           Link("index", IndexName),
           Link("next", DetailName(i, 2))>>,
         DetailForms, <<>>,
         <<PageNum(i), PositionInPage(i), 1, 2>>)

DetailSecondContent(i) ==
    Page("detail", i, 2,
         <<DetailName(i, 2)>>,
         SecondPageLinks(i),
         DetailForms, <<>>,
         <<PageNum(i), PositionInPage(i), 2, 2>>)

LoopNavLinksOffByOne(i, k) ==
    (IF k > 1 THEN <<Link("prev", DetailName(i, k - 1))>> ELSE <<>>) \o
    (IF k <= config.DETAIL_PAGES_PER_TODO
        THEN <<Link("next", DetailName(i, k + 1))>> ELSE <<>>)
LoopNavLinks(i, k) ==
    (IF k > 1 THEN <<Link("prev", DetailName(i, k - 1))>> ELSE <<>>) \o
    (IF k < config.DETAIL_PAGES_PER_TODO
        THEN <<Link("next", DetailName(i, k + 1))>> ELSE <<>>)

DetailLoopContent(i, k) ==
    Page("detail", i, k,
         <<DetailName(i, k)>>,
         <<Link("back", PageName(PageNum(i))),
           Link("index", IndexName)>> \o LoopNavLinks(i, k),
         DetailForms, <<>>,
         <<PageNum(i), PositionInPage(i), k, config.DETAIL_PAGES_PER_TODO>>)

(***************************************************************************)
(* The two nested loops of the generated detail code: the inner loop runs  *)
(* over detail_page_num, the outer one over idx.                           *)
(***************************************************************************)
LoopStepSwapped(i, k) ==
    IF i < total_items THEN [idx |-> i + 1, k |-> k]
    ELSE [idx |-> 1, k |-> k + 1]
LoopStep(i, k) ==
    IF k < config.DETAIL_PAGES_PER_TODO THEN [idx |-> i, k |-> k + 1]
    ELSE [idx |-> i + 1, k |-> 1]

LoopDone(s) == s.idx > total_items \/ s.k > config.DETAIL_PAGES_PER_TODO

(***************************************************************************)
(* Title page (generate_title_page ends with showPage).                    *)
(***************************************************************************)
TitlePageContent == Page("title", 0, 0, <<>>, <<>>, <<>>, <<>>, <<>>)

(***************************************************************************)
(* What the canvas holds when save() is called.                            *)
(***************************************************************************)
RECURSIVE Flatten(_, _)
Flatten(s, f) ==
    IF s = <<>> THEN <<>> ELSE s[1][f] \o Flatten(Tail(s), f)

Range(s) == {s[j] : j \in 1..Len(s)}

Registered == UNION {Range(pages[j].bm) : j \in 1..Len(pages)}
LinkTargets == UNION {{l.target : l \in Range(pages[j].links)} : j \in 1..Len(pages)}
Unresolved == LinkTargets \ Registered

(***************************************************************************)
(* The Streamlit session at its start.                                     *)
(***************************************************************************)
\* The field each keyed structure widget sets, by the key of the widget.
WidgetKeys ==
    [page_format |-> "page_format_selector", items_per_col |-> "items_input",
     columns |-> "columns_radio", pages_of_todos |-> "pages_input",
     detail_pages_per_todo |-> "detail_pages_select",
     guide_lines_enabled |-> "guide_lines_checkbox",
     title_page_enabled |-> "title_page_checkbox"]

\* The value of each widget when nothing was loaded (default_config = {}).
WidgetDefaults ==
    [page_format_selector |-> "A4 (210x297 mm)", items_input |-> ScriptItemsPerCol,
     columns_radio |-> ScriptColumns, pages_input |-> ScriptPagesOfTodos,
     detail_pages_select |-> ScriptDetailPages, guide_lines_checkbox |-> FALSE,
     title_page_checkbox |-> FALSE]

\* A new session: the widgets at their defaults, nothing exported, the empty
\* store UserConfigManager.__init__ creates, no loaded configuration, and no
\* exception raised by the script.
NewSession ==
    [widgets |-> WidgetDefaults, exported |-> <<>>,
     user_configs |-> <<>>, current_config |-> <<>>, config_history |-> <<>>,
     saves |-> <<>>, loaded_config |-> <<>>, error |-> ""]

(***************************************************************************)
(* Initial states: the canvas was created and the metadata set.            *)
(***************************************************************************)
\* The index of a new gallery directory, with no configuration file in it.
EmptyGallery ==
    [configs |-> <<>>, tags |-> <<>>, total |-> 0, files |-> <<>>,
     calls |-> 0, returned |-> {}, ret |-> <<>>]

InitCommon ==
    /\ session = NewSession
    /\ gallery = EmptyGallery
    /\ p = 0
    /\ idx = 1
    /\ detail_page_num = 1
    /\ pages = <<>>
    /\ forms = <<>>
    /\ outcome = "running"

DefaultGeom ==
    [PAGE_WIDTH |-> 210, PAGE_HEIGHT |-> 297,
     MARGIN_LEFT |-> 8, MARGIN_RIGHT |-> 8,
     MARGIN_TOP |-> 18, MARGIN_BOTTOM |-> 8]

NoFunction ==
    /\ fn = "create_pdf"
    /\ inp = <<>>
    /\ out = <<>>

Init ==
    /\ mode = "ui"
    /\ config \in UiConfigs
    /\ pc = "title"
    /\ InitCommon
    /\ geom = DefaultGeom
    /\ NoFunction

InitScript ==
    /\ mode = "script"
    /\ config = ScriptConfig
    /\ pc = "form"
    /\ InitCommon
    /\ geom = DefaultGeom
    /\ NoFunction

(***************************************************************************)
(* Actions.                                                                *)
(***************************************************************************)
TitlePageCallTwice ==
    /\ pc = "title"
    /\ pages' = IF config.TITLE_PAGE_ENABLED
                THEN pages \o <<TitlePageContent, TitlePageContent>> ELSE pages
    /\ pc' = "form"
    /\ UNCHANGED others
    /\ UNCHANGED <<mode, config, p, idx, detail_page_num, forms, outcome>>
TitlePageCall ==
    /\ pc = "title"
    /\ pages' = IF config.TITLE_PAGE_ENABLED
                THEN Append(pages, TitlePageContent) ELSE pages
    /\ pc' = "form"
    /\ UNCHANGED others
    /\ UNCHANGED <<mode, config, p, idx, detail_page_num, forms, outcome>>

BuildForm ==
    /\ pc = "form"
    /\ forms' = Append(forms, [name |-> "dotPattern", pagesBefore |-> Len(pages)])
    /\ pc' = "index"
    /\ UNCHANGED others
    /\ UNCHANGED <<mode, config, p, idx, detail_page_num, pages, outcome>>

IndexPage ==
    /\ pc = "index"
    /\ pages' = Append(pages, IndexPageContent)
    /\ p' = 0
    /\ pc' = IF 0 < config.PAGES_OF_TODOS THEN "list"
             ELSE IF total_items >= 1 THEN "detail" ELSE "save"
    /\ UNCHANGED others
    /\ UNCHANGED <<mode, config, idx, detail_page_num, forms, outcome>>

ListPage ==
    /\ pc = "list"
    /\ p < config.PAGES_OF_TODOS
    /\ pages' = Append(pages, ListPageContent(p))
    /\ p' = p + 1
    /\ pc' = IF p + 1 < config.PAGES_OF_TODOS THEN "list"
             ELSE IF total_items >= 1 THEN "detail" ELSE "save"
    /\ idx' = 1
    /\ detail_page_num' = 1
    /\ UNCHANGED others
    /\ UNCHANGED <<mode, config, forms, outcome>>

DetailFirstPage ==
    /\ pc = "detail"
    /\ ~UseLoop
    /\ detail_page_num = 1
    /\ pages' = Append(pages, DetailFirstContent(idx))
    /\ detail_page_num' = 2
    /\ UNCHANGED others
    /\ UNCHANGED <<mode, config, pc, p, idx, forms, outcome>>

DetailSecondPage ==
    /\ pc = "detail"
    /\ ~UseLoop
    /\ detail_page_num = 2
    /\ pages' = Append(pages, DetailSecondContent(idx))
    /\ detail_page_num' = 1
    /\ idx' = idx + 1
    /\ pc' = IF idx + 1 <= total_items THEN "detail" ELSE "save"
    /\ UNCHANGED others
    /\ UNCHANGED <<mode, config, p, forms, outcome>>

DetailLoopPage ==
    /\ pc = "detail"
    /\ UseLoop
    /\ pages' = Append(pages, DetailLoopContent(idx, detail_page_num))
    /\ LET s == LoopStep(idx, detail_page_num)
       IN /\ idx' = s.idx
          /\ detail_page_num' = s.k
          /\ pc' = IF LoopDone(s) THEN "save" ELSE "detail"
    /\ UNCHANGED others
    /\ UNCHANGED <<mode, config, p, forms, outcome>>

Save ==
    /\ pc = "save"
    /\ outcome' = IF Unresolved = {} THEN "saved" ELSE "error"
    /\ pc' = "done"
    /\ UNCHANGED others
    /\ UNCHANGED <<mode, config, p, idx, detail_page_num, pages, forms>>

Next ==
    \/ TitlePageCall
    \/ BuildForm
    \/ IndexPage
    \/ ListPage
    \/ DetailFirstPage
    \/ DetailSecondPage
    \/ DetailLoopPage
    \/ Save

NextScript ==
    \/ BuildForm
    \/ IndexPage
    \/ ListPage
    \/ DetailFirstPage
    \/ DetailSecondPage
    \/ Save

Spec == Init /\ [][Next]_vars

SpecScript == InitScript /\ [][NextScript]_vars

(***************************************************************************)
(* Reading the finished pages.                                             *)
(***************************************************************************)
RoleTargets(pg, role) ==
    LET s == SelectSeq(pg.links, LAMBDA l : l.role = role)
    IN [j \in 1..Len(s) |-> s[j].target]

IsDetailOf(pg, i) ==
    \E j \in 1..Len(pg.bm) : pg.bm[j][1] = "detail" /\ pg.bm[j][2] = i

AllBookmarks == Flatten(pages, "bm")
ListPagesEmitted == SelectSeq(pages, LAMBDA pg : pg.kind = "list")
TitleOffset == IF config.TITLE_PAGE_ENABLED THEN 1 ELSE 0

C2_DetailChain ==
    pc = "done" =>
        \A i \in 1..total_items :
            LET dp == SelectSeq(pages, LAMBDA pg : IsDetailOf(pg, i))
                d == config.DETAIL_PAGES_PER_TODO
            IN /\ Len(dp) = d
               /\ \A k \in 1..Len(dp) :
                    /\ dp[k].bm = <<DetailName(i, k)>>
                    /\ RoleTargets(dp[k], "prev") =
                         (IF k > 1 THEN <<DetailName(i, k - 1)>> ELSE <<>>)
                    /\ RoleTargets(dp[k], "next") =
                         (IF k < d THEN <<DetailName(i, k + 1)>> ELSE <<>>)

C2_Witness ==
    /\ pc = "done"
    /\ config.DETAIL_PAGES_PER_TODO = 3
    /\ \E j \in 1..Len(pages) :
          /\ pages[j].bm = <<DetailName(total_items, 2)>>
          /\ RoleTargets(pages[j], "prev") = <<DetailName(total_items, 1)>>
          /\ RoleTargets(pages[j], "next") = <<DetailName(total_items, 3)>>

(***************************************************************************)
(* C3: the index page holds exactly one link to page_n for every n in      *)
(* 1..numberOfListPages, and the back-link of every detail page targets    *)
(* page_n for the page number n shown in its header.                       *)
(***************************************************************************)
C3_IndexLinksEveryListPage ==
    \A j \in 1..Len(pages) :
        /\ pages[j].kind = "index" =>
             \A n \in 1..config.PAGES_OF_TODOS :
                Cardinality({m \in 1..Len(pages[j].links) :
                                pages[j].links[m].target = PageName(n)}) = 1
        /\ pages[j].kind = "detail" =>
             RoleTargets(pages[j], "back") = <<PageName(pages[j].hdr[1])>>

(***************************************************************************)
(* C4: item (p, c, i) gets the global index p*I*C + c*I + i + 1, and over  *)
(* all list pages the global indices are exactly 1..N, each once.          *)
(***************************************************************************)
C4_GlobalIndexDense ==
    pc \in {"detail", "save", "done"} =>
        LET its == Flatten(ListPagesEmitted, "items")
        IN /\ Len(its) = total_items
           /\ {its[j].global_idx : j \in 1..Len(its)} = 1..total_items
           /\ \A j \in 1..Len(ListPagesEmitted) :
                \A m \in 1..Len(ListPagesEmitted[j].items) :
                    LET it == ListPagesEmitted[j].items[m]
                    IN it.global_idx =
                         (ListPagesEmitted[j].n - 1) * config.ITEMS_PER_COL * config.COLUMNS
                         + it.col * config.ITEMS_PER_COL + it.i + 1

C4_Witness ==
    /\ pc = "save"
    /\ config.COLUMNS = 2
    /\ config.PAGES_OF_TODOS = MaxPages
    /\ Len(Flatten(ListPagesEmitted, "items")) = MaxPages * 2 * config.ITEMS_PER_COL

(***************************************************************************)
(* C5: an item link on list page n targets detail_g_1, and the back-link   *)
(* of every detail page of item g targets page_n.                          *)
(***************************************************************************)
C5_RoundTrip ==
    pc = "done" =>
        \A j \in 1..Len(pages) :
            pages[j].kind = "list" =>
                /\ RoleTargets(pages[j], "item") =
                     [m \in 1..Len(pages[j].items) |->
                        DetailName(pages[j].items[m].global_idx, 1)]
                /\ \A m \in 1..Len(pages[j].items) :
                     LET g == pages[j].items[m].global_idx
                     IN /\ \E q \in 1..Len(pages) : pages[q].bm = <<DetailName(g, 1)>>
                        /\ \A q \in 1..Len(pages) :
                             IsDetailOf(pages[q], g) =>
                                RoleTargets(pages[q], "back") = pages[j].bm

C5_Witness ==
    /\ pc = "done"
    /\ config.COLUMNS = 2
    /\ \E j, q \in 1..Len(pages) :
          /\ pages[j].bm = <<PageName(2)>>
          /\ Link("item", DetailName(ItemsPerPage + 1, 1)) \in Range(pages[j].links)
          /\ pages[q].bm = <<DetailName(ItemsPerPage + 1, config.DETAIL_PAGES_PER_TODO)>>
          /\ RoleTargets(pages[q], "back") = <<PageName(2)>>

(***************************************************************************)
(* C6: links to bookmarks that are registered later are accepted, and at   *)
(* save every link target names a registered bookmark.                     *)
(***************************************************************************)
C6_NoUnresolvedLink ==
    /\ outcome # "error"
    /\ pc = "done" => (outcome = "saved" /\ LinkTargets \subseteq Registered)

C6_Witness ==
    /\ pc = "done"
    /\ outcome = "saved"
    /\ \E j \in 1..Len(pages) :
          \E l \in Range(pages[j].links) :
              /\ \A q \in 1..j : l.target \notin Range(pages[q].bm)
              /\ \E q \in (j + 1)..Len(pages) : l.target \in Range(pages[q].bm)

(***************************************************************************)
(* C7: pages are emitted in the order index, list pages 1..P, then for     *)
(* idx = 1..N the detail pages k = 1..d (after the optional title page).   *)
(***************************************************************************)
PageTag(pg) == IF pg.bm = <<>> THEN <<"title">> ELSE pg.bm[1]

ExpectedTag(j) ==
    LET m == j - TitleOffset
    IN IF m = 0 THEN <<"title">>
       ELSE IF m = 1 THEN IndexName
       ELSE IF m <= 1 + config.PAGES_OF_TODOS THEN PageName(m - 1)
       ELSE LET r == m - 2 - config.PAGES_OF_TODOS
            IN DetailName((r \div config.DETAIL_PAGES_PER_TODO) + 1,
                          (r % config.DETAIL_PAGES_PER_TODO) + 1)

C7_PageOrder ==
    \A j \in 1..Len(pages) : PageTag(pages[j]) = ExpectedTag(j)

C7_Witness ==
    /\ pc = "done"
    /\ config.DETAIL_PAGES_PER_TODO = 3
    /\ PageTag(pages[Len(pages)]) = DetailName(total_items, 3)
    /\ PageTag(pages[Len(pages) - 3]) = DetailName(total_items - 1, 3)

(***************************************************************************)
(* C8: the dot pattern form is defined once, before any page that places   *)
(* it, and every detail page places that one form exactly once.            *)
(***************************************************************************)
C8_FormBuiltOnce ==
    /\ Len(forms) <= 1
    /\ pc \notin {"title", "form"} => Len(forms) = 1
    /\ \A j \in 1..Len(pages) :
          /\ pages[j].forms # <<>> =>
                /\ Len(forms) = 1
                /\ j > forms[1].pagesBefore
                /\ pages[j].forms = <<forms[1].name>>
          /\ pages[j].kind = "detail" => Len(pages[j].forms) = 1

C8_Witness ==
    /\ pc = "done"
    /\ Len(forms) = 1
    /\ Cardinality({j \in 1..Len(pages) : pages[j].forms = <<"dotPattern">>})
         = total_items * config.DETAIL_PAGES_PER_TODO
    /\ total_items * config.DETAIL_PAGES_PER_TODO >= 3 * MinPages * MinItemsPerCol

(***************************************************************************)
(* C9: every bookmark name is registered exactly once in a pass.           *)
(***************************************************************************)
C9_RegisteredOnce ==
    Cardinality(Range(AllBookmarks)) = Len(AllBookmarks)

(***************************************************************************)
(* C10: every list page and every detail page has a link to index, and     *)
(* the index bookmark is registered on the index page.                     *)
(***************************************************************************)
C10_IndexLinkEverywhere ==
    /\ \A j \in 1..Len(pages) :
          /\ pages[j].kind \in {"list", "detail"} =>
                \E l \in Range(pages[j].links) : l.target = IndexName
          /\ IndexName \in Range(pages[j].bm) <=> pages[j].kind = "index"
    /\ pc \notin {"title", "form", "index"} =>
          \E j \in 1..Len(pages) : pages[j].kind = "index"

C10_Witness ==
    /\ pc = "done"
    /\ config.DETAIL_PAGES_PER_TODO = 2
    /\ \E j \in 1..Len(pages) :
          /\ pages[j].bm = <<DetailName(total_items, 2)>>
          /\ Link("index", IndexName) \in Range(pages[j].links)

(***************************************************************************)
(* C11: the number printed next to item (c, i) of a list page is           *)
(* c*itemsPerColumn + i + 1, lies in 1..itemsPerColumn*columns whatever    *)
(* the list page, and the header of every detail page of the item shows    *)
(* that number as position and the item's list page number as page.        *)
(***************************************************************************)
C11_TodoNumPerPage ==
    pc = "done" =>
        \A j \in 1..Len(pages) :
            pages[j].kind = "list" =>
                \A m \in 1..Len(pages[j].items) :
                    LET it == pages[j].items[m]
                    IN /\ it.todo_num = it.col * config.ITEMS_PER_COL + it.i + 1
                       /\ it.todo_num \in 1..(config.ITEMS_PER_COL * config.COLUMNS)
                       /\ \A q \in 1..Len(pages) :
                            IsDetailOf(pages[q], it.global_idx) =>
                                /\ pages[q].hdr[1] = pages[j].hdr[1]
                                /\ PageName(pages[q].hdr[1]) = pages[j].bm[1]
                                /\ pages[q].hdr[2] = it.todo_num

C11_Witness ==
    /\ pc = "done"
    /\ config.COLUMNS = 2
    /\ \E j, q \in 1..Len(pages) :
          /\ pages[j].bm = <<PageName(2)>>
          /\ pages[j].items[ItemsPerPage].global_idx = 2 * ItemsPerPage
          /\ pages[j].items[ItemsPerPage].todo_num = ItemsPerPage
          /\ pages[q].bm = <<DetailName(2 * ItemsPerPage, 1)>>
          /\ pages[q].hdr[1] = 2
          /\ pages[q].hdr[2] = ItemsPerPage

(***************************************************************************)
(* Item number placement on a list page.                                   *)
(*                                                                         *)
(* Lengths are in thousandths of a point.  reportlab's mm is 72/25.4       *)
(* points, taken as 2835 thousandths; a digit of Helvetica is 0.556 em     *)
(* wide, so stringWidth of a number at size s is digits * 556 * s.         *)
(* usable_width / COLUMNS is taken with integer division.                  *)
(***************************************************************************)
mm == 2835
HelveticaDigit == 556
MinNumOffset == -10
MaxNumOffset == 10
OutsideLeftGap == 3
OutsideRightGap == 1

Placements == {"Outside (left/right)", "Inside (left)", "Inside (right)", "Hidden"}
PlacementNumSizes == {5, 12}
PlacementMargins == {2, 8}

IdleGenerator ==
    /\ mode = "none"
    /\ config = ScriptConfig
    /\ pc = "idle"
    /\ InitCommon
    /\ geom = DefaultGeom

Digits(n) == IF n < 10 THEN 1 ELSE IF n < 100 THEN 2 ELSE 3
StringWidthNum(n, size) == Digits(n) * HelveticaDigit * size

NumXKeepsWidth(in, col, x0, col_width, num_width) ==
    IF col = 0
    THEN in.MARGIN_LEFT * mm - OutsideLeftGap * mm + in.NUM_OFFSET_X_LEFT * mm
    ELSE in.PAGE_WIDTH * mm - in.MARGIN_RIGHT * mm + OutsideRightGap * mm
         + in.NUM_OFFSET_X_RIGHT * mm
NumX(in, col, x0, col_width, num_width) ==
    IF in.variant = "script"
    THEN IF col = 0
         THEN in.MARGIN_LEFT * mm - OutsideLeftGap * mm - num_width
         ELSE in.PAGE_WIDTH * mm - in.MARGIN_RIGHT * mm + OutsideRightGap * mm
    ELSE IF in.NUM_PLACEMENT = "Outside (left/right)"
         THEN IF col = 0
              THEN in.MARGIN_LEFT * mm - OutsideLeftGap * mm - num_width
                   + in.NUM_OFFSET_X_LEFT * mm
              ELSE in.PAGE_WIDTH * mm - in.MARGIN_RIGHT * mm + OutsideRightGap * mm
                   + in.NUM_OFFSET_X_RIGHT * mm
         ELSE LET offset == IF col = 0 THEN in.NUM_OFFSET_X_LEFT * mm
                            ELSE in.NUM_OFFSET_X_RIGHT * mm
              IN IF in.NUM_PLACEMENT = "Inside (left)"
                 THEN x0 + 2 * mm + offset
                 ELSE x0 + col_width - 20 * mm - num_width + offset

DrawnNumbers(in) ==
    IF in.variant = "ui" /\ in.NUM_PLACEMENT = "Hidden" THEN <<>>
    ELSE LET usable_width == in.PAGE_WIDTH * mm - in.MARGIN_LEFT * mm - in.MARGIN_RIGHT * mm
             col_width == usable_width \div in.COLUMNS
         IN [j \in 1..(in.COLUMNS * MinItemsPerCol) |->
               LET col == (j - 1) \div MinItemsPerCol
                   i == (j - 1) % MinItemsPerCol
                   todo_num == col * MinItemsPerCol + i + 1
                   num_width == StringWidthNum(todo_num, in.FONT_SIZE_NUM)
                   x0 == in.MARGIN_LEFT * mm + col * col_width
               IN [col |-> col, todo_num |-> todo_num, num_width |-> num_width,
                   num_x |-> NumX(in, col, x0, col_width, num_width)]]

PlacementInputs ==
    [variant : {"ui"},
     NUM_PLACEMENT : Placements,
     NUM_OFFSET_X_LEFT : MinNumOffset..MaxNumOffset,
     NUM_OFFSET_X_RIGHT : MinNumOffset..MaxNumOffset,
     COLUMNS : {1, 2},
     FONT_SIZE_NUM : PlacementNumSizes,
     MARGIN_LEFT : PlacementMargins,
     MARGIN_RIGHT : {8},
     PAGE_WIDTH : {210}]
    \cup
    [variant : {"script"},
     NUM_PLACEMENT : {"Outside (left/right)"},
     NUM_OFFSET_X_LEFT : {0},
     NUM_OFFSET_X_RIGHT : {0},
     COLUMNS : {ScriptColumns},
     FONT_SIZE_NUM : {7},
     MARGIN_LEFT : {8},
     MARGIN_RIGHT : {8},
     PAGE_WIDTH : {210}]

InitPlacement ==
    /\ IdleGenerator
    /\ fn = "numbers"
    /\ inp \in PlacementInputs
    /\ out = <<>>

DrawNumbers ==
    /\ fn = "numbers"
    /\ out = <<>>
    /\ out' = <<DrawnNumbers(inp)>>
    /\ UNCHANGED <<mode, config, pc, p, idx, detail_page_num, pages, forms, outcome,
                   geom, fn, inp, gallery, session>>

NextPlacement == DrawNumbers

SpecPlacement == InitPlacement /\ [][NextPlacement]_vars

(***************************************************************************)
(* C12: with the outside placement a left-column number ends left of       *)
(* marginLeft and a right-column number starts right of                    *)
(* width - marginRight, for every offset the sliders permit.               *)
(***************************************************************************)
OutsideOfMargins(in, nums) ==
    \A j \in 1..Len(nums) :
        IF nums[j].col = 0
        THEN nums[j].num_x + nums[j].num_width < in.MARGIN_LEFT * mm
        ELSE nums[j].num_x > in.PAGE_WIDTH * mm - in.MARGIN_RIGHT * mm

C12_OutsideForEveryOffset ==
    (fn = "numbers" /\ out # <<>> /\ inp.NUM_PLACEMENT = "Outside (left/right)")
        => OutsideOfMargins(inp, out[1])

(***************************************************************************)
(* C12 (amended): the same, for a left offset below 3 mm and a right       *)
(* offset above -1 mm (the default 0 and the shipped script included).     *)
(***************************************************************************)
C12_OutsideWithinGap ==
    (/\ fn = "numbers" /\ out # <<>>
     /\ inp.NUM_PLACEMENT = "Outside (left/right)"
     /\ inp.NUM_OFFSET_X_LEFT < OutsideLeftGap
     /\ inp.NUM_OFFSET_X_RIGHT > -OutsideRightGap)
        => OutsideOfMargins(inp, out[1])

C12_Witness ==
    /\ fn = "numbers"
    /\ out # <<>>
    /\ inp.variant = "ui"
    /\ inp.NUM_PLACEMENT = "Outside (left/right)"
    /\ inp.NUM_OFFSET_X_LEFT = OutsideLeftGap - 1
    /\ inp.NUM_OFFSET_X_RIGHT = 0
    /\ inp.COLUMNS = 2
    /\ Len(out[1]) = 2 * MinItemsPerCol
    /\ out[1][2 * MinItemsPerCol].col = 1

(***************************************************************************)
(* Page geometries the UI can write into Config (Custom format 50..500 by  *)
(* 50..700 mm, margin sliders 2..30, 5..40 and 2..30 mm), and the          *)
(* generator run on them.  create_pdf reads the geometry only to place     *)
(* what it draws.                                                          *)
(***************************************************************************)
AreaGeometries ==
    [PAGE_WIDTH : {50, 210}, PAGE_HEIGHT : {50, 297},
     MARGIN_LEFT : {8, 30}, MARGIN_RIGHT : {8, 20, 30},
     MARGIN_TOP : {18, 40}, MARGIN_BOTTOM : {8, 10}]

AreaConfigs ==
    [ITEMS_PER_COL : {MinItemsPerCol},
     COLUMNS : {1},
     PAGES_OF_TODOS : {MinPages},
     DETAIL_PAGES_PER_TODO : {1, 2},
     TITLE_PAGE_ENABLED : {TRUE}]

UsableWidth(g) == g.PAGE_WIDTH - g.MARGIN_LEFT - g.MARGIN_RIGHT
UsableHeight(g) == g.PAGE_HEIGHT - g.MARGIN_TOP - g.MARGIN_BOTTOM

InitArea ==
    /\ mode = "ui"
    /\ config \in AreaConfigs
    /\ pc = "title"
    /\ InitCommon
    /\ geom \in AreaGeometries
    /\ NoFunction

SpecArea == InitArea /\ [][Next]_vars

(***************************************************************************)
(* C13: when the margins leave no usable area (left + right >= width or    *)
(* top + bottom >= height) no form is registered and no page is emitted,   *)
(* and the run ends in an error.                                           *)
(***************************************************************************)
C13_EmptyAreaRejected ==
    (UsableWidth(geom) <= 0 \/ UsableHeight(geom) <= 0) =>
        /\ forms = <<>>
        /\ pages = <<>>
        /\ pc = "done" => outcome = "error"

(***************************************************************************)
(* Reading a layout field from a configuration mapping.  A field of the    *)
(* mapping is <<>> when the key is absent and <<v>> when it holds v; dot   *)
(* spacings are in tenths of a millimetre.  The readers are the            *)
(* generator's Config class, the UI widgets (default_config.get), the      *)
(* config collector and the gallery share form (st.session_state.get).     *)
(***************************************************************************)
LayoutFields == {"items_per_col", "columns", "dot_spacing"}
Readers == {"Config", "widget", "collector", "gallery"}

ConfigDotSpacing == 70
WidgetDotSpacing == 70
CollectorDotSpacing == 50
GalleryDotSpacing == 50

DefaultOf(reader, field) ==
    CASE field = "items_per_col" -> ScriptItemsPerCol
      [] field = "columns" -> ScriptColumns
      [] field = "dot_spacing" ->
            CASE reader = "Config" -> ConfigDotSpacing
              [] reader = "widget" -> WidgetDotSpacing
              [] reader = "collector" -> CollectorDotSpacing
              [] reader = "gallery" -> GalleryDotSpacing

ReadField(reader, field, mapping) ==
    IF mapping[field] = <<>> THEN DefaultOf(reader, field) ELSE mapping[field][1]

Mappings ==
    [items_per_col : {<<>>, <<10>>, <<20>>, <<30>>},
     columns : {<<>>, <<1>>, <<2>>},
     dot_spacing : {<<>>, <<30>>, <<50>>, <<70>>}]

InitDefaults ==
    /\ IdleGenerator
    /\ fn = "read"
    /\ inp \in [reader : Readers, field : LayoutFields, mapping : Mappings]
    /\ out = <<>>

ReadLayoutField ==
    /\ fn = "read"
    /\ out = <<>>
    /\ out' = <<ReadField(inp.reader, inp.field, inp.mapping)>>
    /\ UNCHANGED <<mode, config, pc, p, idx, detail_page_num, pages, forms, outcome,
                   geom, fn, inp, gallery, session>>

NextDefaults == ReadLayoutField

SpecDefaults == InitDefaults /\ [][NextDefaults]_vars

(***************************************************************************)
(* C14: a layout field missing from the mapping reads as the documented    *)
(* default in every reader: 20 items per column, 2 columns, 7 mm dot       *)
(* spacing.                                                                *)
(***************************************************************************)
C14_SameDefault ==
    (fn = "read" /\ out # <<>> /\ inp.mapping[inp.field] = <<>>) =>
        out[1] = CASE inp.field = "items_per_col" -> 20
                   [] inp.field = "columns" -> 2
                   [] inp.field = "dot_spacing" -> 70

(***************************************************************************)
(* Configuration exchange.  A text is the sequence of its code points, a   *)
(* byte string the sequence of its bytes.  A configuration value is        *)
(* <<"int", n>>, <<"float", t>> (t tenths, a float whose repr has one      *)
(* decimal), <<"bool", b>> or <<"str", text>>; a configuration maps every  *)
(* key of ConfigKeys to a value.  json.dumps, json.loads, the UTF-8 codec  *)
(* and urlsafe base64 are computed on these sequences.                     *)
(***************************************************************************)
ConfigKeys ==
    <<"page_format", "landscape", "items_per_col", "num_offset_y", "dot_spacing",
      "title_text">>

Chars(k) ==
    CASE
         k = "page_format" -> <<112, 97, 103, 101, 95, 102, 111, 114, 109, 97, 116>>
      [] k = "landscape" -> <<108, 97, 110, 100, 115, 99, 97, 112, 101>>
      [] k = "items_per_col" -> <<105, 116, 101, 109, 115, 95, 112, 101, 114, 95, 99, 111, 108>>
      [] k = "num_offset_y" -> <<110, 117, 109, 95, 111, 102, 102, 115, 101, 116, 95, 121>>
      [] k = "dot_spacing" -> <<100, 111, 116, 95, 115, 112, 97, 99, 105, 110, 103>>
      [] k = "title_text" -> <<116, 105, 116, 108, 101, 95, 116, 101, 120, 116>>

TrueText == <<116, 114, 117, 101>>
FalseText == <<102, 97, 108, 115, 101>>

RECURSIVE NatText(_)
NatText(n) == IF n < 10 THEN <<48 + n>> ELSE NatText(n \div 10) \o <<48 + (n % 10)>>
IntText(n) == IF n < 0 THEN <<45>> \o NatText(-n) ELSE NatText(n)
FloatText(t) ==
    LET a == IF t < 0 THEN -t ELSE t
    IN (IF t < 0 THEN <<45>> ELSE <<>>) \o NatText(a \div 10) \o <<46, 48 + (a % 10)>>

HexDigit(d) == IF d < 10 THEN 48 + d ELSE 87 + d
EscapeCharRaw(ch) ==
    IF ch = 92 THEN <<92, 92>>
    ELSE IF ch > 126
         THEN <<92, 117, HexDigit(ch \div 4096), HexDigit((ch \div 256) % 16),
                HexDigit((ch \div 16) % 16), HexDigit(ch % 16)>>
         ELSE <<ch>>
EscapeChar(ch) ==
    IF ch = 34 THEN <<92, 34>>
    ELSE IF ch = 92 THEN <<92, 92>>
    ELSE IF ch > 126
         THEN <<92, 117, HexDigit(ch \div 4096), HexDigit((ch \div 256) % 16),
                HexDigit((ch \div 16) % 16), HexDigit(ch % 16)>>
         ELSE <<ch>>

\* The concatenation of the sequences ss[lo], ..., ss[hi].
RECURSIVE Join(_, _, _)
Join(ss, lo, hi) ==
    IF lo > hi THEN <<>>
    ELSE IF lo = hi THEN ss[lo]
    ELSE LET mid == (lo + hi) \div 2 IN Join(ss, lo, mid) \o Join(ss, mid + 1, hi)

EscapeString(t) == Join([j \in 1..Len(t) |-> EscapeChar(t[j])], 1, Len(t))

StringText(t) == <<34>> \o EscapeString(t) \o <<34>>

DumpsValue(v) ==
    CASE v[1] = "int" -> IntText(v[2])
      [] v[1] = "float" -> FloatText(v[2])
      [] v[1] = "bool" -> IF v[2] THEN TrueText ELSE FalseText
      [] v[1] = "str" -> StringText(v[2])

RECURSIVE DumpsMembers(_, _, _, _)
DumpsMembers(c, j, item_separator, key_separator) ==
    IF j > Len(ConfigKeys) THEN <<>>
    ELSE (IF j > 1 THEN item_separator ELSE <<>>)
         \o StringText(Chars(ConfigKeys[j])) \o key_separator \o DumpsValue(c[ConfigKeys[j]])
         \o DumpsMembers(c, j + 1, item_separator, key_separator)

\* json.dumps(config, separators=(',', ':'))
DumpsCompact(c) == <<123>> \o DumpsMembers(c, 1, <<44>>, <<58>>) \o <<125>>
\* json.dumps(config, indent=2)
DumpsIndent(c) ==
    <<123, 10, 32, 32>> \o DumpsMembers(c, 1, <<44, 10, 32, 32>>, <<58, 32>>) \o <<10, 125>>

Failed == [ok |-> FALSE, val |-> <<>>, pos |-> 0]
Parsed(v, i) == [ok |-> TRUE, val |-> v, pos |-> i]

RECURSIVE SkipWs(_, _)
SkipWs(s, i) == IF i <= Len(s) /\ s[i] \in {32, 10, 13, 9} THEN SkipWs(s, i + 1) ELSE i

IsHex(b) == b \in (48..57) \cup (97..102) \cup (65..70)
HexVal(b) == IF b <= 57 THEN b - 48 ELSE IF b >= 97 THEN b - 87 ELSE b - 55

RECURSIVE ScanString(_, _, _)
ScanString(s, i, acc) ==
    IF i > Len(s) THEN Failed
    ELSE IF s[i] = 34 THEN Parsed(<<"str", acc>>, i + 1)
    ELSE IF s[i] = 92
         THEN IF i + 1 > Len(s) THEN Failed
              ELSE IF s[i + 1] \in {34, 92, 47}
                   THEN ScanString(s, i + 2, Append(acc, s[i + 1]))
              ELSE IF /\ s[i + 1] = 117
                      /\ i + 5 <= Len(s)
                      /\ \A d \in 2..5 : IsHex(s[i + d])
                   THEN ScanString(s, i + 6,
                            Append(acc, HexVal(s[i + 2]) * 4096 + HexVal(s[i + 3]) * 256
                                        + HexVal(s[i + 4]) * 16 + HexVal(s[i + 5])))
              ELSE Failed
    ELSE ScanString(s, i + 1, Append(acc, s[i]))

RECURSIVE ScanDigits(_, _, _, _)
ScanDigits(s, i, acc, count) ==
    IF i <= Len(s) /\ s[i] \in 48..57
    THEN ScanDigits(s, i + 1, acc * 10 + (s[i] - 48), count + 1)
    ELSE [val |-> acc, pos |-> i, count |-> count]

ScanNumber(s, i) ==
    LET neg == s[i] = 45
        whole == ScanDigits(s, IF neg THEN i + 1 ELSE i, 0, 0)
        sign == IF neg THEN -1 ELSE 1
    IN IF whole.count = 0 THEN Failed
       ELSE IF whole.pos <= Len(s) /\ s[whole.pos] = 46
            THEN LET frac == ScanDigits(s, whole.pos + 1, 0, 0)
                 IN IF frac.count # 1 THEN Failed
                    ELSE Parsed(<<"float", sign * (whole.val * 10 + frac.val)>>, frac.pos)
            ELSE Parsed(<<"int", sign * whole.val>>, whole.pos)

StartsWith(s, i, t) == i + Len(t) - 1 <= Len(s) /\ SubSeq(s, i, i + Len(t) - 1) = t

ScanValue(s, i) ==
    IF i > Len(s) THEN Failed
    ELSE IF s[i] = 34 THEN ScanString(s, i + 1, <<>>)
    ELSE IF s[i] = 45 \/ s[i] \in 48..57 THEN ScanNumber(s, i)
    ELSE IF StartsWith(s, i, TrueText) THEN Parsed(<<"bool", TRUE>>, i + Len(TrueText))
    ELSE IF StartsWith(s, i, FalseText) THEN Parsed(<<"bool", FALSE>>, i + Len(FalseText))
    ELSE Failed

RECURSIVE ScanMembers(_, _, _)
ScanMembers(s, i, acc) ==
    LET k0 == SkipWs(s, i)
    IN IF k0 > Len(s) \/ s[k0] # 34 THEN Failed
       ELSE LET key == ScanString(s, k0 + 1, <<>>)
            IN IF ~key.ok THEN Failed
               ELSE LET c0 == SkipWs(s, key.pos)
                    IN IF c0 > Len(s) \/ s[c0] # 58 THEN Failed
                       ELSE LET value == ScanValue(s, SkipWs(s, c0 + 1))
                            IN IF ~value.ok THEN Failed
                               ELSE LET e0 == SkipWs(s, value.pos)
                                        acc1 == Append(acc, <<key.val[2], value.val>>)
                                    IN IF e0 > Len(s) THEN Failed
                                       ELSE IF s[e0] = 44 THEN ScanMembers(s, e0 + 1, acc1)
                                       ELSE IF s[e0] = 125 /\ SkipWs(s, e0 + 1) > Len(s)
                                            THEN Parsed(acc1, e0 + 1)
                                       ELSE Failed

KeyIndex(t) == {j \in 1..Len(ConfigKeys) : Chars(ConfigKeys[j]) = t}

\* json.loads on an object: the mapping of its members, a later member
\* replacing an earlier one of the same key.
Loads(s) ==
    LET i0 == SkipWs(s, 1)
    IN IF i0 > Len(s) \/ s[i0] # 123 THEN [ok |-> FALSE, config |-> <<>>]
       ELSE LET members == ScanMembers(s, i0 + 1, <<>>)
            IN IF ~members.ok \/ \E j \in 1..Len(members.val) : KeyIndex(members.val[j][1]) = {}
               THEN [ok |-> FALSE, config |-> <<>>]
               ELSE LET KeyAt(j) == ConfigKeys[CHOOSE n \in KeyIndex(members.val[j][1]) : TRUE]
                        keys == {KeyAt(j) : j \in 1..Len(members.val)}
                        Last(k) == CHOOSE j \in 1..Len(members.val) :
                                      /\ KeyAt(j) = k
                                      /\ \A m \in (j + 1)..Len(members.val) : KeyAt(m) # k
                    IN [ok |-> TRUE, config |-> [k \in keys |-> members.val[Last(k)][2]]]

Utf8Encode(t) ==
    Join([j \in 1..Len(t) |->
            IF t[j] < 128 THEN <<t[j]>>
            ELSE <<192 + (t[j] \div 64), 128 + (t[j] % 64)>>], 1, Len(t))

Utf8Decode(b) ==
    LET Lead(j) == b[j] \in 192..223
        Cont(j) == b[j] \in 128..191
        ok == \A j \in 1..Len(b) :
                 \/ b[j] < 128
                 \/ Lead(j) /\ j < Len(b) /\ Cont(j + 1)
                 \/ Cont(j) /\ j > 1 /\ Lead(j - 1)
    IN IF ~ok THEN [ok |-> FALSE, text |-> <<>>]
       ELSE [ok |-> TRUE,
             text |-> Join([j \in 1..Len(b) |->
                              IF b[j] < 128 THEN <<b[j]>>
                              ELSE IF Lead(j)
                                   THEN <<(b[j] - 192) * 64 + (b[j + 1] - 128)>>
                                   ELSE <<>>], 1, Len(b))]

B64Char(x) ==
    IF x < 26 THEN 65 + x
    ELSE IF x < 52 THEN 97 + (x - 26)
    ELSE IF x < 62 THEN 48 + (x - 52)
    ELSE IF x = 62 THEN 45 ELSE 95

B64Val(ch) ==
    IF ch \in 65..90 THEN ch - 65
    ELSE IF ch \in 97..122 THEN ch - 97 + 26
    ELSE IF ch \in 48..57 THEN ch - 48 + 52
    ELSE IF ch = 45 THEN 62
    ELSE IF ch = 95 THEN 63 ELSE -1

EncodeGroup(b) ==
    IF Len(b) = 1
    THEN <<B64Char(b[1] \div 4), B64Char((b[1] % 4) * 16), 61, 61>>
    ELSE IF Len(b) = 2
         THEN <<B64Char(b[1] \div 4), B64Char((b[1] % 4) * 16 + b[2] \div 16),
                B64Char((b[2] % 16) * 4), 61>>
    ELSE <<B64Char(b[1] \div 4), B64Char((b[1] % 4) * 16 + b[2] \div 16),
           B64Char((b[2] % 16) * 4 + b[3] \div 64), B64Char(b[3] % 64)>>

urlsafe_b64encode(b) ==
    LET groups == (Len(b) + 2) \div 3
        Min(x, y) == IF x < y THEN x ELSE y
    IN Join([g \in 1..groups |-> EncodeGroup(SubSeq(b, 3 * g - 2, Min(3 * g, Len(b))))],
            1, groups)

\* The bytes of one group of four characters; <<-1>> when it is malformed.
DecodeGroup(t, last) ==
    LET v1 == B64Val(t[1])
        v2 == B64Val(t[2])
        v3 == B64Val(t[3])
        v4 == B64Val(t[4])
        b1 == v1 * 4 + v2 \div 16
        b2 == (v2 % 16) * 16 + v3 \div 4
        b3 == (v3 % 4) * 64 + v4
    IN IF v1 < 0 \/ v2 < 0 THEN <<-1>>
       ELSE IF t[3] = 61 /\ t[4] = 61 /\ last THEN <<b1>>
       ELSE IF v3 >= 0 /\ t[4] = 61 /\ last THEN <<b1, b2>>
       ELSE IF v3 >= 0 /\ v4 >= 0 THEN <<b1, b2, b3>>
       ELSE <<-1>>

urlsafe_b64decode(t) ==
    IF Len(t) % 4 # 0 THEN [ok |-> FALSE, bytes |-> <<>>]
    ELSE LET groups == Len(t) \div 4
             decoded == [g \in 1..groups |-> DecodeGroup(SubSeq(t, 4 * g - 3, 4 * g), g = groups)]
         IN IF \E g \in 1..groups : decoded[g] = <<-1>>
            THEN [ok |-> FALSE, bytes |-> <<>>]
            ELSE [ok |-> TRUE, bytes |-> Join(decoded, 1, groups)]

export_config(manager, c) ==
    IF manager = "UserConfigManager"
    THEN Utf8Decode(urlsafe_b64encode(Utf8Encode(DumpsCompact(c)))).text
    ELSE DumpsIndent(c)

import_config(manager, t) ==
    IF manager = "UserConfigManager"
    THEN LET bytes == urlsafe_b64decode(Utf8Encode(t))
         IN IF ~bytes.ok THEN [ok |-> FALSE, config |-> <<>>]
            ELSE LET text == Utf8Decode(bytes.bytes)
                 IN IF ~text.ok THEN [ok |-> FALSE, config |-> <<>>] ELSE Loads(text.text)
    ELSE Loads(t)

\* "A4 (210x297 mm)" with the multiplication sign U+00D7, and "Custom"
PageFormatTexts == {<<65, 52, 32, 40, 50, 49, 48, 215, 50, 57, 55, 32, 109, 109, 41>>, <<67, 117, 115, 116, 111, 109>>}
\* "", "Todo", "My "To Do"" and "a\b"
TitleTexts == {<<>>, <<84, 111, 100, 111>>, <<77, 121, 32, 34, 84, 111, 32, 68, 111, 34>>, <<97, 92, 98>>}

ExchangeConfigs ==
    [page_format : {<<"str", t>> : t \in PageFormatTexts},
     landscape : {<<"bool", b>> : b \in BOOLEAN},
     items_per_col : {<<"int", n>> : n \in {MinItemsPerCol, 30}},
     num_offset_y : {<<"int", n>> : n \in {-5, 0}},
     dot_spacing : {<<"float", t>> : t \in {CollectorDotSpacing, 55, ConfigDotSpacing}},
     title_text : {<<"str", t>> : t \in TitleTexts}]

Managers == {"UserConfigManager", "LocalStorageManager"}

InitExchange ==
    /\ IdleGenerator
    /\ fn = "exchange"
    /\ inp \in [manager : Managers, config : ExchangeConfigs]
    /\ out = <<>>

ExportConfig ==
    /\ fn = "exchange"
    /\ out = <<>>
    /\ out' = <<export_config(inp.manager, inp.config)>>
    /\ UNCHANGED <<mode, config, pc, p, idx, detail_page_num, pages, forms, outcome,
                   geom, fn, inp, gallery, session>>

ImportConfig ==
    /\ fn = "exchange"
    /\ Len(out) = 1
    /\ out' = Append(out, import_config(inp.manager, out[1]))
    /\ UNCHANGED <<mode, config, pc, p, idx, detail_page_num, pages, forms, outcome,
                   geom, fn, inp, gallery, session>>

NextExchange == ExportConfig \/ ImportConfig

SpecExchange == InitExchange /\ [][NextExchange]_vars

(***************************************************************************)
(* C15: importing what export_config produced returns a mapping equal to   *)
(* the exported one, field for field, in both managers.                    *)
(***************************************************************************)
C15_LosslessRoundTrip ==
    (fn = "exchange" /\ Len(out) = 2) =>
        /\ out[2].ok
        /\ DOMAIN out[2].config = DOMAIN inp.config
        /\ \A k \in DOMAIN inp.config : out[2].config[k] = inp.config[k]

C15_Witness ==
    /\ fn = "exchange"
    /\ Len(out) = 2
    /\ inp.manager = "UserConfigManager"
    /\ inp.config.title_text[2] = <<77, 121, 32, 34, 84, 111, 32, 68, 111, 34>>
    /\ inp.config.page_format[2] = <<65, 52, 32, 40, 50, 49, 48, 215, 50, 57, 55, 32, 109, 109, 41>>
    /\ inp.config.num_offset_y[2] = -5
    /\ out[2].ok
    /\ out[2].config.title_text = inp.config.title_text

(***************************************************************************)
(* The public gallery.  gallery.configs and gallery.tags are the "configs" *)
(* and "tags" mappings of the index, gallery.total is stats.total and      *)
(* gallery.files maps an ID to the content of its configuration file.      *)
(* gallery.returned records the (configuration, ID) pairs publish_config   *)
(* has returned and gallery.ret the last call with its result.             *)
(* A gallery configuration is the mapping with items_per_col = 20,         *)
(* columns = 2 and title_text = "Todo <n>", named by n.                    *)
(***************************************************************************)
MaxCalls == 3
MaxViews == 2

GalleryConfigs == {1, 2, 8896, 91317}

\* hashlib.md5(json.dumps(config, sort_keys=True).encode()).hexdigest()[:8],
\* tabulated on GalleryConfigs.
generate_config_id(c) ==
    CASE c = 1 -> "4c1dcff8"
      [] c = 2 -> "a5ed0fc3"
      [] c = 8896 -> "3b3806cd"
      [] c = 91317 -> "3b3806cd"

GalleryNames == {"Untitled", "Mine"}
GalleryTags == {<<>>, <<"notes">>, <<"notes", "notes">>}
GalleryIds == {generate_config_id(c) : c \in GalleryConfigs} \cup {"00000000"}

AlreadyExistsNever(g, config_id) == FALSE
AlreadyExists(g, config_id) == config_id \in DOMAIN g.configs

\* f with key k bound to v
Put(f, k, v) == [x \in DOMAIN f \cup {k} |-> IF x = k THEN v ELSE f[x]]

RECURSIVE AddTags(_, _, _)
AddTags(tagIndex, tags, config_id) ==
    IF tags = <<>> THEN tagIndex
    ELSE LET tag == Head(tags)
             old == IF tag \in DOMAIN tagIndex THEN tagIndex[tag] ELSE <<>>
         IN AddTags(Put(tagIndex, tag, Append(old, config_id)), Tail(tags), config_id)

publish_config(g, c, name, tags) ==
    LET config_id == generate_config_id(c)
    IN IF AlreadyExists(g, config_id)
       THEN [g EXCEPT !.calls = @ + 1,
                      !.returned = @ \cup {<<c, config_id>>},
                      !.ret = <<[op |-> "publish", config |-> c, id |-> config_id,
                                 is_new |-> FALSE]>>]
       ELSE [configs |-> Put(g.configs, config_id,
                             [name |-> name, tags |-> tags, views |-> 0]),
             tags |-> AddTags(g.tags, tags, config_id),
             total |-> g.total + 1,
             files |-> Put(g.files, config_id,
                           [id |-> config_id, name |-> name, tags |-> tags,
                            config |-> c, views |-> 0]),
             calls |-> g.calls + 1,
             returned |-> g.returned \cup {<<c, config_id>>},
             ret |-> <<[op |-> "publish", config |-> c, id |-> config_id,
                        is_new |-> TRUE]>>]

load_config(g, config_id) ==
    IF config_id \in DOMAIN g.files
    THEN [g EXCEPT !.configs = IF config_id \in DOMAIN g.configs
                                THEN [@ EXCEPT ![config_id].views = @ + 1] ELSE @,
                   !.calls = @ + 1,
                   !.ret = <<[op |-> "load", id |-> config_id, found |-> TRUE,
                              data |-> g.files[config_id]]>>]
    ELSE [g EXCEPT !.calls = @ + 1,
                   !.ret = <<[op |-> "load", id |-> config_id, found |-> FALSE]>>]

InitGallery ==
    /\ IdleGenerator
    /\ fn = "gallery"
    /\ inp = <<>>
    /\ out = <<>>

PublishConfig ==
    /\ fn = "gallery"
    /\ gallery.calls < MaxCalls
    /\ \E c \in GalleryConfigs, name \in GalleryNames, tags \in GalleryTags :
          gallery' = publish_config(gallery, c, name, tags)
    /\ UNCHANGED <<mode, config, pc, p, idx, detail_page_num, pages, forms, outcome,
                   geom, fn, inp, out, session>>

LoadConfig ==
    /\ fn = "gallery"
    /\ gallery.calls < MaxCalls
    /\ \E config_id \in GalleryIds :
          /\ config_id \in DOMAIN gallery.configs => gallery.configs[config_id].views < MaxViews
          /\ gallery' = load_config(gallery, config_id)
    /\ UNCHANGED <<mode, config, pc, p, idx, detail_page_num, pages, forms, outcome,
                   geom, fn, inp, out, session>>

NextGallery == PublishConfig \/ LoadConfig

SpecGallery == InitGallery /\ [][NextGallery]_vars

(***************************************************************************)
(* C16: publishing is idempotent on content.  After every publish_config   *)
(* call the returned ID is the ID of the configuration, no two gallery     *)
(* entries hold the same configuration, stats.total counts the entries and *)
(* no tag lists an ID twice; and a publish whose ID was already in the     *)
(* index returns is_new = False and leaves the index entries, the tag      *)
(* index, stats.total and the files as they were.                          *)
(***************************************************************************)
OneEntryPerConfig(g) ==
    /\ \A i, j \in DOMAIN g.files : g.files[i].config = g.files[j].config => i = j
    /\ DOMAIN g.files = DOMAIN g.configs
    /\ g.total = Cardinality(DOMAIN g.configs)

C16_PublishIdempotent ==
    [][(gallery'.calls = gallery.calls + 1 /\ gallery'.ret[1].op = "publish") =>
          /\ gallery'.ret[1].id = generate_config_id(gallery'.ret[1].config)
          /\ OneEntryPerConfig(gallery')
          /\ gallery'.ret[1].is_new = (gallery'.ret[1].id \notin DOMAIN gallery.configs)
          /\ gallery'.ret[1].id \in DOMAIN gallery.configs =>
                /\ gallery'.configs = gallery.configs
                /\ gallery'.tags = gallery.tags
                /\ gallery'.total = gallery.total
                /\ gallery'.files = gallery.files]_vars

C16_Witness ==
    /\ fn = "gallery"
    /\ gallery.calls = 2
    /\ gallery.total = 1
    /\ gallery.ret # <<>>
    /\ gallery.ret[1].op = "publish"
    /\ gallery.ret[1].config = 2
    /\ ~gallery.ret[1].is_new
    /\ gallery.tags = [t \in {"notes"} |-> <<"a5ed0fc3">>]

(***************************************************************************)
(* C17: load_config(id) returns the configuration that publish_config      *)
(* returned id for: whenever a load finds a file, its config is every      *)
(* configuration for which a publish call has returned that ID.            *)
(***************************************************************************)
C17_LoadReturnsPublished ==
    (/\ fn = "gallery"
     /\ gallery.ret # <<>>
     /\ gallery.ret[1].op = "load")
        => /\ gallery.ret[1].found = (\E r \in gallery.returned : r[2] = gallery.ret[1].id)
           /\ \A r \in gallery.returned :
                 r[2] = gallery.ret[1].id => gallery.ret[1].data.config = r[1]

(***************************************************************************)
(* C18: with the title page enabled exactly one title page is emitted, as  *)
(* the first page, and the index bookmark is registered on the second      *)
(* physical page; with it disabled there is no title page and the index    *)
(* page, carrying the index bookmark, is the first page.                   *)
(***************************************************************************)
TitlePages == {j \in 1..Len(pages) : pages[j].kind = "title"}
IndexBookmarkPages == {j \in 1..Len(pages) : IndexName \in Range(pages[j].bm)}

C18_TitlePageFirst ==
    mode = "ui" =>
        /\ TitlePages = IF config.TITLE_PAGE_ENABLED /\ pc # "title" THEN {1} ELSE {}
        /\ IndexBookmarkPages \subseteq {1 + TitleOffset}
        /\ pc \notin {"title", "form", "index"} =>
              /\ IndexBookmarkPages = {1 + TitleOffset}
              /\ pages[1 + TitleOffset].kind = "index"

C18_Witness ==
    /\ mode = "ui"
    /\ pc = "done"
    /\ config.TITLE_PAGE_ENABLED
    /\ pages[1].kind = "title"
    /\ IndexName \in Range(pages[2].bm)
    /\ pages[2].kind = "index"

(***************************************************************************)
(* Page size.  A page format is the sequence of the words of its label     *)
(* (x standing for the multiplication sign), so that                       *)
(* page_format.split(" ")[0] is its first word.  Lengths are in            *)
(* thousandths of a point (mm == 2835, one inch == 72000); the Custom      *)
(* dimensions are in millimetres.                                          *)
(***************************************************************************)
inch == 72000

PageFormats ==
    {<<"A3", "(297x420", "mm)">>, <<"A4", "(210x297", "mm)">>, <<"A5", "(148x210", "mm)">>,
     <<"B4", "(250x353", "mm)">>, <<"B5", "(176x250", "mm)">>,
     <<"Letter", "(216x279", "mm)">>, <<"Legal", "(216x356", "mm)">>,
     <<"Tabloid", "(279x432", "mm)">>, <<"Custom">>}

\* reportlab.lib.pagesizes and the tabloid the UI defines, by the name bound to them
PageSizeByName ==
    [A3 |-> <<297 * mm, 420 * mm>>, A4 |-> <<210 * mm, 297 * mm>>,
     A5 |-> <<148 * mm, 210 * mm>>, B4 |-> <<250 * mm, 353 * mm>>,
     B5 |-> <<176 * mm, 250 * mm>>,
     letter |-> <<(17 * inch) \div 2, 11 * inch>>, legal |-> <<(17 * inch) \div 2, 14 * inch>>,
     tabloid |-> <<11 * inch, 17 * inch>>]

\* the page_formats dictionary of the UI
page_formats(page_format) ==
    CASE page_format[1] = "Letter" -> PageSizeByName["letter"]
      [] page_format[1] = "Legal" -> PageSizeByName["legal"]
      [] page_format[1] = "Tabloid" -> PageSizeByName["tabloid"]
      [] OTHER -> PageSizeByName[page_format[1]]

Swap(size) == <<size[2], size[1]>>

\* custom_width and custom_height before the landscape option is applied
CustomSize(in) ==
    IF in.custom_method = "Millimeters"
    THEN <<in.custom_width, in.custom_height>>
    ELSE <<(in.pixels_width * 254) \div (in.ppi * 10),
           (in.pixels_height * 254) \div (in.ppi * 10)>>

\* the format's own (width, height)
FormatSize(in) ==
    IF in.page_format = <<"Custom">>
    THEN <<CustomSize(in)[1] * mm, CustomSize(in)[2] * mm>>
    ELSE page_formats(in.page_format)

\* page_size, handed to the preview
PreviewPageSize(in) == IF in.landscape THEN Swap(FormatSize(in)) ELSE FormatSize(in)

\* custom_width, custom_height after the landscape option is applied
CustomAfterLandscape(in) ==
    IF in.landscape THEN Swap(CustomSize(in)) ELSE CustomSize(in)

\* the expression written after "PAGE_WIDTH, PAGE_HEIGHT =" in the generated script
page_size_str(in) ==
    IF in.page_format = <<"Custom">>
    THEN LET custom == CustomAfterLandscape(in)
         IN IF in.landscape
            THEN [kind |-> "tuple", size |-> <<custom[2], custom[1]>>]
            ELSE [kind |-> "tuple", size |-> <<custom[1], custom[2]>>]
    ELSE IF in.landscape
         THEN [kind |-> "landscape", name |-> in.page_format[1]]
         ELSE [kind |-> "name", name |-> in.page_format[1]]

\* reportlab.lib.pagesizes.landscape
landscape(size) == IF size[1] < size[2] THEN Swap(size) ELSE size

\* Evaluating that expression in the generated script, whose module binds
\* exactly the names of PageSizeByName (and landscape).
DocumentPageSize(expr) ==
    IF expr.kind = "tuple"
    THEN [ok |-> TRUE, size |-> <<expr.size[1] * mm, expr.size[2] * mm>>]
    ELSE IF expr.name \notin DOMAIN PageSizeByName
         THEN [ok |-> FALSE, size |-> <<>>]
         ELSE IF expr.kind = "landscape"
              THEN [ok |-> TRUE, size |-> landscape(PageSizeByName[expr.name])]
              ELSE [ok |-> TRUE, size |-> PageSizeByName[expr.name]]

PageSizeInputs ==
    [page_format : PageFormats, landscape : BOOLEAN,
     custom_method : {"Millimeters", "Pixels + PPI (for e-readers)"},
     custom_width : {100, 210}, custom_height : {297},
     pixels_width : {1500}, pixels_height : {3000}, ppi : {300}]

InitPageSize ==
    /\ IdleGenerator
    /\ fn = "page_size"
    /\ inp \in PageSizeInputs
    /\ out = <<>>

PreparePageSize ==
    /\ fn = "page_size"
    /\ out = <<>>
    /\ out' = <<[preview |-> PreviewPageSize(inp),
                 document |-> DocumentPageSize(page_size_str(inp))]>>
    /\ UNCHANGED <<mode, config, pc, p, idx, detail_page_num, pages, forms, outcome,
                   geom, fn, inp, gallery, session>>

NextPageSize == PreparePageSize

SpecPageSize == InitPageSize /\ [][NextPageSize]_vars

(***************************************************************************)
(* C19: the generated document's (width, height) is the format's           *)
(* (height, width) with the landscape option and the format's              *)
(* (width, height) without it, for every format, and it is the page size   *)
(* of the preview.                                                         *)
(***************************************************************************)
C19_LandscapeSwapsSize ==
    (fn = "page_size" /\ out # <<>>) =>
        /\ out[1].document.ok
        /\ out[1].document.size =
              IF inp.landscape THEN Swap(FormatSize(inp)) ELSE FormatSize(inp)
        /\ out[1].document.size = out[1].preview

(***************************************************************************)
(* Layout of the index page, in thousandths of a point.  The shipped       *)
(* script is run with its own Config; the script the UI generates has the  *)
(* items_per_col and usable_height statements replaced.                    *)
(***************************************************************************)
MaxPagesOfTodos == 100
HalfHeightPages == 30
IndexTopGap == 40000

IndexLayoutInputs ==
    [variant : {"ui"}, PAGES_OF_TODOS : MinPages..MaxPagesOfTodos,
     PAGE_HEIGHT : {297, 420}, MARGIN_TOP : {18, 40}, MARGIN_BOTTOM : {8}]
    \cup
    [variant : {"script"}, PAGES_OF_TODOS : {ScriptPagesOfTodos},
     PAGE_HEIGHT : {297}, MARGIN_TOP : {18}, MARGIN_BOTTOM : {8}]

IndexYTop(in) == in.PAGE_HEIGHT * mm - in.MARGIN_TOP * mm - IndexTopGap

IndexLayoutItemsPerCol(in) ==
    IF in.variant = "script" THEN ScriptIndexItemsPerCol
    ELSE (in.PAGES_OF_TODOS + IndexCols - 1) \div IndexCols

IndexUsableHeight(in) ==
    IF in.variant = "script" \/ in.PAGES_OF_TODOS <= HalfHeightPages
    THEN (IndexYTop(in) - in.MARGIN_BOTTOM * mm) \div 2
    ELSE IndexYTop(in) - in.MARGIN_BOTTOM * mm

IndexLineHeight(in) == IndexUsableHeight(in) \div IndexLayoutItemsPerCol(in)

\* the entries one column draws, top to bottom, until the break
IndexColumnEntries(in, col) ==
    LET items_per_col == IndexLayoutItemsPerCol(in)
        drawn == {i \in 0..(items_per_col - 1) :
                     col * items_per_col + i + 1 <= in.PAGES_OF_TODOS}
    IN [j \in 1..Cardinality(drawn) |->
          [page_num |-> col * items_per_col + (j - 1) + 1, col |-> col, row |-> j - 1,
           y |-> IndexYTop(in) - (j - 1) * IndexLineHeight(in)]]

IndexLayout(in) ==
    [cols |-> IndexCols,
     line_height |-> IndexLineHeight(in),
     entries |-> IndexColumnEntries(in, 0) \o IndexColumnEntries(in, 1)]

InitIndexLayout ==
    /\ IdleGenerator
    /\ fn = "index"
    /\ inp \in IndexLayoutInputs
    /\ out = <<>>

DrawIndex ==
    /\ fn = "index"
    /\ out = <<>>
    /\ out' = <<IndexLayout(inp)>>
    /\ UNCHANGED <<mode, config, pc, p, idx, detail_page_num, pages, forms, outcome,
                   geom, fn, inp, gallery, session>>

NextIndexLayout == DrawIndex

SpecIndexLayout == InitIndexLayout /\ [][NextIndexLayout]_vars

(***************************************************************************)
(* C20: the index has 2 columns of ceil(numberOfListPages / 2) slots:      *)
(* entry P{n} is in column (n-1) div slots at row (n-1) mod slots, and the *)
(* slot height is span / slots, span being half of the available height    *)
(* up to 30 list pages and the full available height above.                *)
(***************************************************************************)
C20_IndexLayout ==
    (fn = "index" /\ out # <<>>) =>
        LET slots == (inp.PAGES_OF_TODOS + 1) \div 2
            available == IndexYTop(inp) - inp.MARGIN_BOTTOM * mm
            span == IF inp.PAGES_OF_TODOS <= 30 THEN available \div 2 ELSE available
        IN /\ out[1].cols = 2
           /\ out[1].line_height = span \div slots
           /\ \A j \in 1..Len(out[1].entries) :
                 LET e == out[1].entries[j]
                 IN /\ e.col = (e.page_num - 1) \div slots
                    /\ e.row = (e.page_num - 1) % slots
                    /\ e.y = IndexYTop(inp) - e.row * (span \div slots)

(***************************************************************************)
(* The dot loops of the form builder, in the double precision arithmetic   *)
(* of the interpreter.  A double d with 0 <= d < 4096 that is a multiple   *)
(* of 2^-72 is the tuple <<h, m, l, f>> of the base-2^21 digits of         *)
(* d * 2^72.  FloatRound rounds such a number to the nearest double, ties  *)
(* to even: a double in [2^k, 2^(k+1)) is a multiple of 2^(k-52).          *)
(***************************************************************************)
LimbBase == 2^21

\* reportlab.lib.units.mm = 72 / 25.4 = 2.834645669291339
mm_double == <<1451, 710059, 710060, 0>>
ZeroDouble == <<0, 0, 0, 0>>
\* 2.0 ** -60
TinyDouble == <<0, 0, 0, 4096>>

\* Both operators bind their argument to its value before using it.
CarryOf(t) ==
    LET f == t[4] % LimbBase
        l1 == t[3] + (t[4] \div LimbBase)
        l == l1 % LimbBase
        m1 == t[2] + (l1 \div LimbBase)
        m == m1 % LimbBase
    IN <<t[1] + (m1 \div LimbBase), m, l, f>>
Carry(sum) == CHOOSE r \in {CarryOf(t) : t \in {sum}} : TRUE

RECURSIVE FloorLog2(_)
FloorLog2(n) == IF n <= 1 THEN 0 ELSE 1 + FloorLog2(n \div 2)

RoundOf(t) ==
    IF t[1] < 2^10 THEN t
    ELSE LET q1 == 2^(FloorLog2(t[1]) - 10)
             r == t[3] % q1
             down == <<t[1], t[2], t[3] - r, 0>>
             up == Carry(<<t[1], t[2], t[3] - r + q1, 0>>)
             twice == 2 * (r * LimbBase + t[4])
             full == q1 * LimbBase
         IN IF twice < full THEN down
            ELSE IF twice > full THEN up
            ELSE IF ((t[3] - r) \div q1) % 2 = 0 THEN down ELSE up
FloatRound(exact) == CHOOSE r \in {RoundOf(t) : t \in {exact}} : TRUE

FloatAddAbsorbs(a, b) == a
FloatAdd(a, b) == FloatRound(Carry(<<a[1] + b[1], a[2] + b[2], a[3] + b[3], a[4] + b[4]>>))
\* a - b for a >= b
FloatSub(a, b) == FloatRound(Carry(<<a[1] - b[1], a[2] - b[2], a[3] - b[3], a[4] - b[4]>>))
\* n * mm for an integer 0 <= n <= 700
TimesMm(n) ==
    FloatRound(Carry(<<n * mm_double[1], n * mm_double[2], n * mm_double[3],
                       n * mm_double[4]>>))

FloatLeq(a, b) ==
    \/ a[1] < b[1]
    \/ a[1] = b[1] /\ a[2] < b[2]
    \/ a[1] = b[1] /\ a[2] = b[2] /\ a[3] < b[3]
    \/ a[1] = b[1] /\ a[2] = b[2] /\ a[3] = b[3] /\ a[4] <= b[4]

MaxDots == 300

\* DOT_SPACING is <<"mm", n>> for n * mm and <<"pt", "2**-60">> for 2.0 ** -60
DotSpacings == {<<"mm", n>> : n \in {0, 3, 5, 8}} \cup {<<"pt", "2**-60">>}

DotInputs ==
    [PAGE_WIDTH : {50}, PAGE_HEIGHT : {50},
     MARGIN_LEFT : {2, 5, 30}, MARGIN_RIGHT : {5, 8, 20, 30},
     MARGIN_TOP : {5}, MARGIN_BOTTOM : {5},
     DOT_SPACING : DotSpacings]

SpacingDouble(in) ==
    IF in.DOT_SPACING[1] = "mm" THEN TimesMm(in.DOT_SPACING[2]) ELSE TinyDouble

x_start(in) == TimesMm(in.MARGIN_LEFT)
x_end(in) == FloatSub(TimesMm(in.PAGE_WIDTH), TimesMm(in.MARGIN_RIGHT))
y_start(in) == TimesMm(in.MARGIN_BOTTOM)
y_end(in) == FloatSub(TimesMm(in.PAGE_HEIGHT), TimesMm(in.MARGIN_TOP))

InitDots ==
    /\ IdleGenerator
    /\ fn = "dotPattern"
    /\ inp \in DotInputs
    /\ out = <<>>

\* c.beginForm ... dot_count = 0; x = x_start.  a and b count the additions
\* made to x and to y; dots holds the (a, b) of every circle drawn.
BeginForm ==
    /\ fn = "dotPattern"
    /\ out = <<>>
    /\ out' = <<[pc |-> "while x", x |-> x_start(inp), y |-> y_start(inp),
                 a |-> 0, b |-> 0, dot_count |-> 0, dots |-> {}]>>
    /\ UNCHANGED <<mode, config, pc, p, idx, detail_page_num, pages, forms, outcome,
                   geom, fn, inp, gallery, session>>

\* while x <= x_end: y = y_start
WhileX ==
    /\ fn = "dotPattern"
    /\ out # <<>>
    /\ out[1].pc = "while x"
    /\ out' = IF FloatLeq(out[1].x, x_end(inp))
              THEN <<[out[1] EXCEPT !.pc = "while y", !.y = y_start(inp), !.b = 0]>>
              ELSE <<[out[1] EXCEPT !.pc = "endForm"]>>
    /\ UNCHANGED <<mode, config, pc, p, idx, detail_page_num, pages, forms, outcome,
                   geom, fn, inp, gallery, session>>

\* while y <= y_end: circle; y += DOT_SPACING; dot_count += 1 -- else x += DOT_SPACING
WhileY ==
    /\ fn = "dotPattern"
    /\ out # <<>>
    /\ out[1].pc = "while y"
    /\ out[1].dot_count < MaxDots
    /\ out' = IF FloatLeq(out[1].y, y_end(inp))
              THEN <<[out[1] EXCEPT !.dots = @ \cup {<<out[1].a, out[1].b>>},
                                    !.y = FloatAdd(@, SpacingDouble(inp)),
                                    !.b = @ + 1,
                                    !.dot_count = @ + 1]>>
              ELSE <<[out[1] EXCEPT !.pc = "while x",
                                    !.x = FloatAdd(@, SpacingDouble(inp)),
                                    !.a = @ + 1]>>
    /\ UNCHANGED <<mode, config, pc, p, idx, detail_page_num, pages, forms, outcome,
                   geom, fn, inp, gallery, session>>

NextDots == BeginForm \/ WhileX \/ WhileY

SpecDots == InitDots /\ [][NextDots]_vars

\* The interpreter keeps running the loops.
SpecDotsFair == SpecDots /\ WF_vars(NextDots)

(***************************************************************************)
(* C21: for a spacing of n > 0 mm, the dots drawn are exactly those at     *)
(* (marginLeft + a*n, marginBottom + b*n) with a, b >= 0,                  *)
(* marginLeft + a*n <= width - marginRight and                             *)
(* marginBottom + b*n <= height - marginTop, the bounds included, and      *)
(* dot_count is their number (0 when a start bound exceeds its end bound). *)
(***************************************************************************)
C21_DotCentres ==
    (/\ fn = "dotPattern" /\ out # <<>> /\ out[1].pc = "endForm"
     /\ inp.DOT_SPACING[1] = "mm" /\ inp.DOT_SPACING[2] > 0)
        => LET n == inp.DOT_SPACING[2]
               expected ==
                   {<<a, b>> \in (0..inp.PAGE_WIDTH) \X (0..inp.PAGE_HEIGHT) :
                       /\ inp.MARGIN_LEFT + a * n <= inp.PAGE_WIDTH - inp.MARGIN_RIGHT
                       /\ inp.MARGIN_BOTTOM + b * n <= inp.PAGE_HEIGHT - inp.MARGIN_TOP}
           IN /\ out[1].dots = expected
              /\ out[1].dot_count = Cardinality(expected)

(***************************************************************************)
(* C26: the dot loops end for every dotSpacing > 0, whatever the margins   *)
(* and the page size; with dotSpacing = 0 and an area that is not empty    *)
(* they never end.                                                         *)
(***************************************************************************)
DotsEnded == fn = "dotPattern" /\ out # <<>> /\ out[1].pc = "endForm"
SpacingInMm == fn = "dotPattern" /\ inp.DOT_SPACING[1] = "mm" /\ inp.DOT_SPACING[2] > 0
SpacingZero == fn = "dotPattern" /\ inp.DOT_SPACING = <<"mm", 0>>
SpacingTiny == fn = "dotPattern" /\ inp.DOT_SPACING[1] = "pt"
LoopsEntered == FloatLeq(x_start(inp), x_end(inp)) /\ FloatLeq(y_start(inp), y_end(inp))

CollectedFields == DOMAIN WidgetKeys

WidgetValues ==
    [page_format_selector : {"A4 (210x297 mm)", "Custom"},
     items_input : {MinItemsPerCol, ScriptItemsPerCol, 30},
     columns_radio : {1, 2},
     pages_input : {MinPages, ScriptPagesOfTodos},
     detail_pages_select : {1, 2, 5},
     guide_lines_checkbox : BOOLEAN,
     title_page_checkbox : BOOLEAN]

\* the second argument of each st.session_state.get of the collector
CollectorDefaults ==
    [page_format |-> "A4 (210x297 mm)", items_per_col |-> 20, columns |-> 2,
     pages_of_todos |-> 30, detail_pages_per_todo |-> 2,
     guide_lines_enabled |-> FALSE, title_page_enabled |-> FALSE]

\* st.session_state.get(key, default), session_state being the widget values
SessionGet(state, field, default) ==
    IF field \in DOMAIN state THEN state[field] ELSE default

collect_complete_config(state) ==
    [field \in CollectedFields |-> SessionGet(state, field, CollectorDefaults[field])]

InitCollect ==
    /\ IdleGenerator
    /\ fn = "collect_complete_config"
    /\ inp = <<>>
    /\ out = <<>>

\* The user changes one widget; the script reruns and the export code is gone.
ChangeWidget ==
    /\ fn = "collect_complete_config"
    /\ \E w \in WidgetValues :
          /\ \E k \in DOMAIN w :
                /\ w[k] # session.widgets[k]
                /\ \A j \in DOMAIN w \ {k} : w[j] = session.widgets[j]
          /\ session' = [session EXCEPT !.widgets = w, !.exported = <<>>]
    /\ UNCHANGED <<mode, config, pc, p, idx, detail_page_num, pages, forms, outcome,
                   geom, fn, inp, out, gallery>>

\* The user clicks Generate Code.
ExportClicked ==
    /\ fn = "collect_complete_config"
    /\ session' = [session EXCEPT !.exported = <<collect_complete_config(session.widgets)>>]
    /\ UNCHANGED <<mode, config, pc, p, idx, detail_page_num, pages, forms, outcome,
                   geom, fn, inp, out, gallery>>

NextCollect == ChangeWidget \/ ExportClicked

SpecCollect == InitCollect /\ [][NextCollect]_vars

(***************************************************************************)
(* C22: the exported configuration holds, for every field, the value the   *)
(* user currently has set in the widget of that field.                     *)
(***************************************************************************)
C22_ExportHoldsLatest ==
    (fn = "collect_complete_config" /\ session.exported # <<>>) =>
        \A field \in CollectedFields :
            session.exported[1][field] = session.widgets[WidgetKeys[field]]

(***************************************************************************)
(* The session store of UserConfigManager.  session.saves is the sequence  *)
(* of the save_to_session calls made so far; the time stamp of a history   *)
(* entry is the ordinal of its call (the clock only moves forward).        *)
(***************************************************************************)
MaxSaves == 12
HistoryThreshold == 10

SavedNames == {"current", "work"}
SavedConfigs == {[items_per_col |-> 15], [items_per_col |-> 20]}
SaveCalls == {[name |-> "current", config |-> [items_per_col |-> 15]],
              [name |-> "current", config |-> [items_per_col |-> 20]],
              [name |-> "work", config |-> [items_per_col |-> 15]]}

\* if len(config_history) > 10: config_history.pop(0)
HistoryDropNewest(h) ==
    IF Len(h) > HistoryThreshold THEN SubSeq(h, 1, Len(h) - 1) ELSE h
HistoryAfterDrop(h) ==
    IF Len(h) > HistoryThreshold THEN Tail(h) ELSE h

save_to_session(s, cfg, name) ==
    [s EXCEPT !.user_configs = Put(@, name, cfg),
              !.current_config = cfg,
              !.config_history =
                  Append(HistoryAfterDrop(@),
                         [timestamp |-> Len(s.saves) + 1, name |-> name,
                          config |-> cfg]),
              !.saves = Append(@, [name |-> name, config |-> cfg])]

load_from_session(s, name) ==
    IF name \in DOMAIN s.user_configs THEN s.user_configs[name]
    ELSE s.current_config

InitSession ==
    /\ IdleGenerator
    /\ fn = "save_to_session"
    /\ inp = <<>>
    /\ out = <<>>

SaveToSession ==
    /\ fn = "save_to_session"
    /\ Len(session.saves) < MaxSaves
    /\ \E call \in SaveCalls :
          session' = save_to_session(session, call.config, call.name)
    /\ UNCHANGED <<mode, config, pc, p, idx, detail_page_num, pages, forms, outcome,
                   geom, fn, inp, out, gallery>>

NextSession == SaveToSession

SpecSession == InitSession /\ [][NextSession]_vars

\* The last save made under a name, if one was made.
LatestSaveUnder(saves, name) ==
    LET made == {i \in 1..Len(saves) : saves[i].name = name}
    IN  CHOOSE i \in made : \A j \in made : j <= i

(***************************************************************************)
(* C28: after any sequence of save_to_session calls the history holds at   *)
(* most 11 entries, which are the most recent saves in call order, and     *)
(* user_configs[name] and current_config are the configuration of the      *)
(* latest save (user_configs under every name: the latest save under it).  *)
(***************************************************************************)
C28_SessionStore ==
    (fn = "save_to_session" /\ session.saves # <<>>) =>
        LET saves == session.saves
            n == Len(saves)
            h == session.config_history
            k == Len(h)
        IN  /\ k <= 11
            /\ k = IF n < 11 THEN n ELSE 11
            /\ \A i \in 1..k :
                  h[i] = [timestamp |-> n - k + i, name |-> saves[n - k + i].name,
                          config |-> saves[n - k + i].config]
            /\ session.current_config = saves[n].config
            /\ session.user_configs[saves[n].name] = saves[n].config
            /\ DOMAIN session.user_configs = {saves[i].name : i \in 1..n}
            /\ \A name \in DOMAIN session.user_configs :
                  session.user_configs[name] =
                      saves[LatestSaveUnder(saves, name)].config

\* Twelve saves were made, under both names: the oldest save has left the
\* history, and "work" still holds what was saved under it before.
C28_Witness ==
    /\ fn = "save_to_session"
    /\ Len(session.saves) = 12
    /\ Len(session.config_history) = 11
    /\ session.config_history[1].timestamp = 2
    /\ session.saves[12].name = "current"
    /\ \E i \in 1..11 : session.saves[i].name = "work"
    /\ session.current_config # session.user_configs["work"]

(***************************************************************************)
(* Themes and presets.  A Load button stores the configuration in          *)
(* st.session_state['loaded_config'] and reruns the script, which reads    *)
(* the arguments of the structure widgets out of it.                       *)
(***************************************************************************)
MaxPresetLoads == 2

\* ConfigThemes.get_themes: the fields the page format and structure widgets read
get_themes ==
    [Academic |-> [page_format |-> "A4 (210x297 mm)", items_per_col |-> 25, columns |-> 2],
     Business |-> [page_format |-> "Letter (216x279 mm)", items_per_col |-> 20, columns |-> 2],
     EReader  |-> [page_format |-> "Custom", items_per_col |-> 15, columns |-> 2],
     Creative |-> [page_format |-> "A4 (210x297 mm)", items_per_col |-> 10, columns |-> 3,
                   detail_pages_per_todo |-> 4],
     Minimal  |-> [page_format |-> "A5 (148x210 mm)", items_per_col |-> 15, columns |-> 1]]

\* UserConfigManager.get_default_configs
get_default_configs ==
    [A4Standard  |-> [page_format |-> "A4 (210x297 mm)", items_per_col |-> 20, columns |-> 2,
                      pages_of_todos |-> 30, detail_pages_per_todo |-> 2],
     BooxNoteMax |-> [page_format |-> "Custom", items_per_col |-> 15, columns |-> 2,
                      pages_of_todos |-> 25, detail_pages_per_todo |-> 3],
     LetterSize  |-> [page_format |-> "Letter (216x279 mm)", items_per_col |-> 18, columns |-> 2,
                      pages_of_todos |-> 25, detail_pages_per_todo |-> 2]]

\* the Quick Presets of the user interface
presets ==
    [A4Standard |-> [page_format |-> "A4 (210x297 mm)", items_per_col |-> 20],
     Letter     |-> [page_format |-> "Letter (216x279 mm)", items_per_col |-> 18],
     BooxNote   |-> [page_format |-> "Custom"]]

PageFormatNames ==
    {"A3 (297x420 mm)", "A4 (210x297 mm)", "A5 (148x210 mm)", "B4 (250x353 mm)",
     "B5 (176x250 mm)", "Letter (216x279 mm)", "Legal (216x356 mm)",
     "Tabloid (279x432 mm)", "Custom"}

\* dict.get(key, default)
DictGet(d, key, default) == IF key \in DOMAIN d THEN d[key] ELSE default

MaxItemsInput == 30
MaxDetailSelect == 5

\* list.index(value) succeeds
ColumnsIndex(value) == value \in {1, 2}

\* The values the widgets are created with from default_config, in the order
\* of the script; error names the first exception raised on the way.
WidgetArgs(default_config) ==
    LET saved_format == DictGet(default_config, "page_format", "A4 (210x297 mm)")
        items == DictGet(default_config, "items_per_col", ScriptItemsPerCol)
        cols == DictGet(default_config, "columns", ScriptColumns)
        pgs == DictGet(default_config, "pages_of_todos", ScriptPagesOfTodos)
        det == DictGet(default_config, "detail_pages_per_todo", ScriptDetailPages)
        error == IF items < MinItemsPerCol \/ items > MaxItemsInput
                     THEN "StreamlitAPIException"
                 ELSE IF ~ColumnsIndex(cols) THEN "ValueError"
                 ELSE IF pgs < MinPages \/ pgs > MaxPagesOfTodos
                     THEN "StreamlitAPIException"
                 ELSE IF det \notin 1..MaxDetailSelect THEN "ValueError"
                 ELSE ""
    IN  [error |-> error,
         values |->
            [page_format_selector |->
                 IF saved_format \in PageFormatNames THEN saved_format
                 ELSE "A4 (210x297 mm)",
             items_input |-> items, columns_radio |-> cols, pages_input |-> pgs,
             detail_pages_select |-> det,
             guide_lines_checkbox |-> DictGet(default_config, "guide_lines_enabled", FALSE),
             title_page_checkbox |-> DictGet(default_config, "title_page_enabled", FALSE)]]

\* One run of the script.  Whether a keyed widget that already has a value
\* takes the new default is left to Streamlit: both outcomes are possible.
Reruns(s) ==
    LET args == WidgetArgs(s.loaded_config)
    IN  IF args.error # "" THEN {[s EXCEPT !.error = args.error, !.exported = <<>>]}
        ELSE {[s EXCEPT !.error = "", !.exported = <<>>, !.widgets = w] :
                w \in {s.widgets, args.values}}

InitThemes ==
    /\ IdleGenerator
    /\ fn = "loaded_config"
    /\ inp = <<>>
    /\ out = <<>>

\* Load / Use This Theme in the gallery, which is drawn at the end of the script.
LoadTheme ==
    /\ fn = "loaded_config"
    /\ session.error = ""
    /\ \E theme_name \in DOMAIN get_themes :
          session' \in Reruns([session EXCEPT !.loaded_config = get_themes[theme_name]])
    /\ UNCHANGED <<mode, config, pc, p, idx, detail_page_num, pages, forms, outcome,
                   geom, fn, inp, out, gallery>>

\* Load <name> under Quick Presets, drawn before the structure widgets.
LoadPreset ==
    /\ fn = "loaded_config"
    /\ Len(session.saves) < MaxPresetLoads
    /\ \E name \in DOMAIN presets :
          session' \in Reruns(save_to_session(
                          [session EXCEPT !.loaded_config = presets[name]],
                          presets[name], name))
    /\ UNCHANGED <<mode, config, pc, p, idx, detail_page_num, pages, forms, outcome,
                   geom, fn, inp, out, gallery>>

NextThemes == LoadTheme \/ LoadPreset

SpecThemes == InitThemes /\ [][NextThemes]_vars

\* The structure a configuration stands for, absent fields at their defaults.
ValidLayout(c) ==
    /\ DictGet(c, "columns", ScriptColumns) \in {1, 2}
    /\ DictGet(c, "items_per_col", ScriptItemsPerCol) >= 1
    /\ DictGet(c, "pages_of_todos", ScriptPagesOfTodos) >= 1
    /\ DictGet(c, "detail_pages_per_todo", ScriptDetailPages) >= 1

(***************************************************************************)
(* C23: every built-in theme and preset is a valid layout configuration    *)
(* (columns 1 or 2, at least one item per column, one list page and one    *)
(* detail page), and the script runs without an exception once it is       *)
(* loaded.                                                                 *)
(***************************************************************************)
C23_ThemesValid ==
    (fn = "loaded_config" /\ session.loaded_config # <<>>) =>
        /\ ValidLayout(session.loaded_config)
        /\ session.error = ""
        /\ \A name \in DOMAIN get_default_configs :
              /\ ValidLayout(get_default_configs[name])
              /\ WidgetArgs(get_default_configs[name]).error = ""

(***************************************************************************)
(* The page totals reported after generation.                              *)
(***************************************************************************)
\* the "Total" line of the generator's statistics
StatisticsTotal ==
    LET total_detail_pages == total_items * config.DETAIL_PAGES_PER_TODO
    IN  1 + config.PAGES_OF_TODOS + total_detail_pages

\* the "Total Pages" figure of the user interface
UiTotalPages ==
    1 + config.PAGES_OF_TODOS
      + (config.PAGES_OF_TODOS * config.ITEMS_PER_COL * config.COLUMNS
           * config.DETAIL_PAGES_PER_TODO)

(***************************************************************************)
(* C24: once the document is saved, the total the generator prints and     *)
(* the total the user interface shows both equal the number of pages       *)
(* emitted, the title page included.                                       *)
(***************************************************************************)
C24_ReportedTotal ==
    (mode = "ui" /\ pc = "done" /\ outcome = "saved") =>
        /\ StatisticsTotal = Len(pages)
        /\ UiTotalPages = Len(pages)

(***************************************************************************)
(* The page a bookmark name leads to when the document is saved, the       *)
(* latest registration of a name replacing the earlier ones.               *)
(***************************************************************************)
RegisteredOn(j, name) == name \in Range(pages[j].bm)

LatestRegistration(name) ==
    CHOOSE j \in 1..Len(pages) :
        /\ RegisteredOn(j, name)
        /\ \A i \in (j + 1)..Len(pages) : ~RegisteredOn(i, name)

(***************************************************************************)
(* C25: when the document is saved, every bookmark page_n, n in            *)
(* 1..numberOfListPages, leads to list page n and not to the index page,   *)
(* so every index entry and every link to page_n lands on list page n.     *)
(***************************************************************************)
C25_PageBookmarkOnListPage ==
    (mode = "ui" /\ pc = "done" /\ outcome = "saved") =>
        /\ \A n \in 1..config.PAGES_OF_TODOS :
              /\ \E j \in 1..Len(pages) : RegisteredOn(j, PageName(n))
              /\ pages[LatestRegistration(PageName(n))].kind = "list"
              /\ pages[LatestRegistration(PageName(n))].n = n
        /\ \A j \in 1..Len(pages) : \A n \in 1..config.PAGES_OF_TODOS :
              (\E l \in Range(pages[j].links) : l.target = PageName(n)) =>
                  pages[LatestRegistration(PageName(n))].hdr = <<n>>

\* A saved document whose index page registered page_1 and page_3 itself,
\* before the list pages did.
C25_Witness ==
    /\ mode = "ui" /\ pc = "done" /\ outcome = "saved"
    /\ config.PAGES_OF_TODOS = 3
    /\ \E j \in 1..Len(pages) :
          /\ pages[j].kind = "index"
          /\ RegisteredOn(j, PageName(1))
          /\ RegisteredOn(j, PageName(3))
          /\ j < LatestRegistration(PageName(1))
          /\ \E l \in Range(pages[j].links) : l.target = PageName(3)

(***************************************************************************)
(* The two detail page generators side by side, both run with              *)
(* DETAIL_PAGES_PER_TODO = 2: out.hard is what the two hard-coded pages    *)
(* of the generator emit, out.loop what the loop the user interface puts   *)
(* in their place emits.                                                   *)
(***************************************************************************)
TwoPageConfigs ==
    {c \in UiConfigs : /\ c.DETAIL_PAGES_PER_TODO = ScriptDetailPages
                       /\ c.ITEMS_PER_COL = MinItemsPerCol
                       /\ c.PAGES_OF_TODOS = MinPages
                       /\ ~c.TITLE_PAGE_ENABLED}

InitDetailPages ==
    /\ mode = "none"
    /\ config \in TwoPageConfigs
    /\ pc = "idle"
    /\ InitCommon
    /\ geom = DefaultGeom
    /\ fn = "detail_pages"
    /\ inp = <<>>
    /\ out = [hard |-> <<>>, idx |-> 1,
              loop |-> <<>>, loop_idx |-> 1, detail_page_num |-> 1]

\* one iteration of "for idx in range(1, total_items + 1)" as shipped
HardCodedDetailPages ==
    /\ fn = "detail_pages"
    /\ out.idx <= total_items
    /\ out' = [out EXCEPT !.hard = @ \o <<DetailFirstContent(out.idx),
                                          DetailSecondContent(out.idx)>>,
                          !.idx = @ + 1]
    /\ UNCHANGED <<mode, config, pc, p, idx, detail_page_num, pages, forms, outcome,
                   geom, fn, inp, gallery, session>>

\* one iteration of "for detail_page_num in range(1, DETAIL_PAGES_PER_TODO + 1)"
LoopDetailPage ==
    /\ fn = "detail_pages"
    /\ ~LoopDone([idx |-> out.loop_idx, k |-> out.detail_page_num])
    /\ LET s == LoopStep(out.loop_idx, out.detail_page_num)
       IN  out' = [out EXCEPT !.loop = Append(@, DetailLoopContent(out.loop_idx,
                                                                  out.detail_page_num)),
                              !.loop_idx = s.idx,
                              !.detail_page_num = s.k]
    /\ UNCHANGED <<mode, config, pc, p, idx, detail_page_num, pages, forms, outcome,
                   geom, fn, inp, gallery, session>>

NextDetailPages == HardCodedDetailPages \/ LoopDetailPage

SpecDetailPages == InitDetailPages /\ [][NextDetailPages]_vars

(***************************************************************************)
(* C27: with DETAIL_PAGES_PER_TODO = 2 the hard-coded detail code and the  *)
(* loop emit the same sequence of pages: page by page the same bookmark    *)
(* names, the same link targets in the same order and the same header      *)
(* label, and as many pages once both have ended.                          *)
(***************************************************************************)
C27_LoopEqualsHardCoded ==
    fn = "detail_pages" =>
        /\ \A j \in 1..Len(out.hard) :
              j <= Len(out.loop) =>
                  /\ out.hard[j].bm = out.loop[j].bm
                  /\ out.hard[j].links = out.loop[j].links
                  /\ out.hard[j].hdr = out.loop[j].hdr
                  /\ out.hard[j] = out.loop[j]
        /\ (out.idx > total_items /\ out.loop_idx > total_items) =>
              Len(out.hard) = Len(out.loop)

\* Both generators have ended on a two-column layout, each having emitted
\* two pages per item, the second with a "prev" and without a "next" link.
C27_Witness ==
    /\ fn = "detail_pages"
    /\ config.COLUMNS = 2
    /\ out.idx > total_items /\ out.loop_idx > total_items
    /\ Len(out.loop) = 2 * total_items
    /\ Len(out.hard) = 2 * total_items
    /\ \E l \in Range(out.loop[2 * total_items].links) : l.role = "prev"
    /\ \A l \in Range(out.loop[2 * total_items].links) : l.role # "next"

(***************************************************************************)
(* C29: after any sequence of publish_config and load_config calls,        *)
(* stats.total is the number of entries of index.configs, every ID listed  *)
(* under a tag is an entry of index.configs that carries the tag, and no   *)
(* tag lists an ID twice.                                                  *)
(***************************************************************************)
C29_IndexConsistent ==
    fn = "gallery" =>
        /\ gallery.total = Cardinality(DOMAIN gallery.configs)
        /\ \A tag \in DOMAIN gallery.tags :
              /\ \A m \in 1..Len(gallery.tags[tag]) :
                    /\ gallery.tags[tag][m] \in DOMAIN gallery.configs
                    /\ tag \in Range(gallery.configs[gallery.tags[tag][m]].tags)
              /\ \A m, n \in 1..Len(gallery.tags[tag]) :
                    gallery.tags[tag][m] = gallery.tags[tag][n] => m = n

(***************************************************************************)
(* The vertical position of the title.  Heights are in the length unit of  *)
(* the page sizes; title_y is in thousandths of it, so that the three      *)
(* fractions 0.2, 0.5 and 0.618 are exact.  A builder that reaches         *)
(* drawString without having assigned title_y raises UnboundLocalError.    *)
(***************************************************************************)
TitlePositions == {"Top", "Center", "Golden Ratio", "Bottom"}

TitleHeights ==
    UNION {{PageSizeByName[name][1], PageSizeByName[name][2]} :
              name \in DOMAIN PageSizeByName}

Assigned(title_y) == [failed |-> FALSE, title_y |-> title_y]
UnboundLocalError == [failed |-> TRUE, error |-> "UnboundLocalError"]

\* generate_title_page of the preview: if / elif / elif, no else
PreviewTitleY(title_position, PAGE_HEIGHT) ==
    IF title_position = "Top" THEN Assigned(PAGE_HEIGHT * 1000 - PAGE_HEIGHT * 200)
    ELSE IF title_position = "Center" THEN Assigned(PAGE_HEIGHT * 500)
    ELSE IF title_position = "Golden Ratio" THEN Assigned(PAGE_HEIGHT * 618)
    ELSE UnboundLocalError

\* generate_title_page written into the generated generator: ends with else
GeneratedTitleY(title_position, PAGE_HEIGHT) ==
    IF title_position = "Top" THEN Assigned(PAGE_HEIGHT * 1000 - PAGE_HEIGHT * 200)
    ELSE IF title_position = "Center" THEN Assigned(PAGE_HEIGHT * 500)
    ELSE IF title_position = "Golden Ratio" THEN Assigned(PAGE_HEIGHT * 618)
    ELSE Assigned(PAGE_HEIGHT * 618)

InitTitlePosition ==
    /\ IdleGenerator
    /\ fn = "generate_title_page"
    /\ inp \in [title_position : TitlePositions, PAGE_HEIGHT : TitleHeights]
    /\ out = [preview |-> <<>>, generated |-> <<>>]

PreviewTitlePage ==
    /\ fn = "generate_title_page"
    /\ out.preview = <<>>
    /\ out' = [out EXCEPT !.preview = <<PreviewTitleY(inp.title_position, inp.PAGE_HEIGHT)>>]
    /\ UNCHANGED <<mode, config, pc, p, idx, detail_page_num, pages, forms, outcome,
                   geom, fn, inp, gallery, session>>

GeneratedTitlePage ==
    /\ fn = "generate_title_page"
    /\ out.generated = <<>>
    /\ out' = [out EXCEPT !.generated =
                              <<GeneratedTitleY(inp.title_position, inp.PAGE_HEIGHT)>>]
    /\ UNCHANGED <<mode, config, pc, p, idx, detail_page_num, pages, forms, outcome,
                   geom, fn, inp, gallery, session>>

NextTitlePosition == PreviewTitlePage \/ GeneratedTitlePage

SpecTitlePosition == InitTitlePosition /\ [][NextTitlePosition]_vars

\* the position the setting stands for, in thousandths
ExpectedTitleY(title_position, height) ==
    IF title_position = "Top" THEN 1000 * height - 200 * height
    ELSE IF title_position = "Center" THEN 500 * height
    ELSE 618 * height

(***************************************************************************)
(* C30: for every value of the title position, a value outside Top,        *)
(* Center and Golden Ratio included, both title page builders compute a    *)
(* vertical position and do not fail: Top gives height - 0.2 * height,     *)
(* Center 0.5 * height, Golden Ratio and any other value 0.618 * height.   *)
(***************************************************************************)
C30_TitlePositionTotal ==
    fn = "generate_title_page" =>
        \A built \in {out.preview, out.generated} :
            built # <<>> =>
                /\ ~built[1].failed
                /\ built[1].title_y = ExpectedTitleY(inp.title_position, inp.PAGE_HEIGHT)

====
